---- MODULE Spec2Model ----
(***************************************************************************)
(* State-machine model of yt_dlp/networking/_urllib3.py: the urllib3       *)
(* request handler Urllib3RH (pool registry, _real_handle), the response   *)
(* adapter Urllib3ResponseAdapter, Urllib3HTTPError, the error translation *)
(* helpers and SocksHTTPConnection._new_conn.  urllib3 itself (1.26        *)
(* series: PoolManager, HTTPConnectionPool, Retry, HTTPResponse) is        *)
(* modelled by what the calls made in _urllib3.py do.                      *)
(***************************************************************************)
EXTENDS Integers, Sequences, FiniteSets, TLC

(***************************************************************************)
(* Bounds of the model                                                     *)
(***************************************************************************)
\* number of get_pool calls one caller makes
MaxRequests == 2
\* number of physical calls all _real_handle calls together may issue (a
\* _real_handle call counts for one even when it fails before its first)
MaxCalls == 2
\* urllib3.Retry's default total (10 in urllib3), scaled down
RetryTotal == 1

(***************************************************************************)
(* Data                                                                    *)
(***************************************************************************)
Callers == {"c1", "c2"}
Hosts == {"a", "b"}
Schemes == {"http", "https"}
URLs == [scheme : Schemes, host : Hosts]
NoURL == [scheme |-> "", host |-> ""]

\* request.proxy: None, a scheme-less proxy (as 1.2.3.4:1080), a scheme-less
\* proxy named by a host name without dots, an http proxy, a socks proxy.
\* scheme is what stands before "://" in the text ("" when it has no "://").
NoProxy == [scheme |-> "", addr |-> ""]
LocalProxy == [scheme |-> "", addr |-> "localhost:8080"]
Proxies ==
    { NoProxy,
      [scheme |-> "", addr |-> "p"],
      LocalProxy,
      [scheme |-> "http", addr |-> "p"],
      [scheme |-> "socks5", addr |-> "s"],
      [scheme |-> "socks", addr |-> "s"] }

\* urllib3.util.url.parse_url(proxy).scheme, "" for None: the text before
\* "://", and without "://" the text before the first colon when it has the
\* form of a scheme name, [a-zA-Z][a-zA-Z0-9+-]*
parse_url_scheme(proxy) ==
    IF proxy.scheme # "" THEN proxy.scheme
    ELSE IF proxy.addr = "localhost:8080" THEN "localhost"
    ELSE ""

\* the registry key used for "no proxy"
NoProxyKey == [scheme |-> "", addr |-> "__noproxy__"]

Methods == {"GET", "POST"}

(***************************************************************************)
(* urllib3 exceptions, as far as the except clauses tell them apart.       *)
(* A raw fault is [cls, cause, msgIR, reason]: its class, the class of its *)
(* __cause__ ("None", "IncompleteRead" for http.client.IncompleteRead,     *)
(* "Other"), whether str(e).lower() contains 'incomplete read', and for a  *)
(* MaxRetryError the class of its reason ("" when it has none; cause and   *)
(* msgIR are then those of the reason).  TypeError is the builtin, raised  *)
(* when an exception class cannot be constructed.                          *)
(***************************************************************************)
ExcClasses ==
    { "Exception", "TypeError", "ProxySchemeUnknown", "HTTPError", "PoolError", "RequestError", "MaxRetryError", "TimeoutError",
      "ConnectTimeoutError", "NewConnectionError", "ReadTimeoutError",
      "IncompleteRead", "SSLError", "ProxyError", "ProtocolError",
      "DecodeError", "ResponseError", "EmptyPoolError" }

\* direct base classes in urllib3.exceptions
Bases(cls) ==
    CASE cls = "HTTPError" -> {}
      [] cls = "TypeError" -> {}
      [] cls = "Exception" -> {}
      [] cls = "PoolError" -> {"HTTPError"}
      [] cls = "RequestError" -> {"PoolError"}
      [] cls = "MaxRetryError" -> {"RequestError"}
      [] cls = "TimeoutError" -> {"HTTPError"}
      [] cls = "ConnectTimeoutError" -> {"TimeoutError"}
      [] cls = "NewConnectionError" -> {"ConnectTimeoutError", "PoolError"}
      [] cls = "ReadTimeoutError" -> {"TimeoutError", "RequestError"}
      [] cls = "EmptyPoolError" -> {"PoolError"}
      [] OTHER -> {"HTTPError"}

RECURSIVE IsInstance(_, _)
IsInstance(cls, base) ==
    \/ cls = base
    \/ \E b \in Bases(cls) : IsInstance(b, base)

Fault(cls, cause, msgIR) ==
    [cls |-> cls, cause |-> cause, msgIR |-> msgIR, reason |-> ""]
NoFault == Fault("", "None", FALSE)
MaxRetryError(e) ==
    [cls |-> "MaxRetryError", cause |-> e.cause, msgIR |-> e.msgIR, reason |-> e.cls]

\* what the except clauses do with an exception
Typed(kind) == [typed |-> TRUE, kind |-> kind]
Raw(cls) == [typed |-> FALSE, kind |-> cls]
Returned == [typed |-> FALSE, kind |-> "returned"]
NoError == [typed |-> FALSE, kind |-> ""]

\* the error taxonomy of ..utils
TypedKinds ==
    { "TransportError", "ConnectTimeoutError", "ReadTimeoutError",
      "IncompleteRead", "SSLError", "ProxyError", "HTTPError" }

READ_ERRORS == {"ReadTimeoutError", "IncompleteRead", "SSLError"}

\* handle_protocol_error with its last raise inside the inner if
handle_protocol_error_inner_raise(e) ==
    IF IsInstance(e.cls, "ProtocolError")
    THEN IF e.cause = "IncompleteRead" \/ e.msgIR
         THEN IF e.cause = "IncompleteRead" THEN Typed("IncompleteRead")
              ELSE Typed("TransportError")
         ELSE Returned
    ELSE Returned

handle_protocol_error(e) ==
    IF IsInstance(e.cls, "ProtocolError")
    THEN IF e.cause = "IncompleteRead" \/ e.msgIR
         THEN IF e.cause # "None"
              THEN IF e.cause = "IncompleteRead"
                   THEN Typed("IncompleteRead")
                   ELSE Raw("AttributeError")   \* original_cause.partial
              ELSE Typed("TransportError")
         ELSE Typed("TransportError")
    ELSE Returned

\* handle_read_errors without its first except clause
handle_read_errors_untimed(e) ==
    IF IsInstance(e.cls, "IncompleteRead") THEN Typed("IncompleteRead")
    ELSE IF IsInstance(e.cls, "SSLError") THEN Typed("SSLError")
    ELSE Raw(e.cls)

handle_read_errors(e) ==
    IF IsInstance(e.cls, "ReadTimeoutError") THEN Typed("ReadTimeoutError")
    ELSE IF IsInstance(e.cls, "IncompleteRead") THEN Typed("IncompleteRead")
    ELSE IF IsInstance(e.cls, "SSLError") THEN Typed("SSLError")
    ELSE Raw(e.cls)

\* _real_handle, the inner except: a MaxRetryError with a reason is replaced
\* by its reason, one without is re-raised
UnwrapMaxRetryError(e) ==
    IF IsInstance(e.cls, "MaxRetryError") /\ e.reason # ""
    THEN [cls |-> e.reason, cause |-> e.cause, msgIR |-> e.msgIR, reason |-> ""]
    ELSE e

\* a helper that returns leaves _real_handle at line 227 with urllib3_res unset
AfterHandler(o) == IF o = Returned THEN Raw("UnboundLocalError") ELSE o

\* _real_handle, the outer except clauses, in their order
DispatchError(raised) ==
    LET e == UnwrapMaxRetryError(raised) IN
    IF IsInstance(e.cls, "ConnectTimeoutError") THEN Typed("ConnectTimeoutError")
    ELSE IF IsInstance(e.cls, "ProxyError") THEN Typed("ProxyError")
    ELSE IF \E r \in READ_ERRORS : IsInstance(e.cls, r)
         THEN AfterHandler(handle_read_errors(e))
    ELSE IF IsInstance(e.cls, "ProtocolError")
         THEN AfterHandler(handle_protocol_error(e))
    ELSE IF IsInstance(e.cls, "HTTPError") THEN Typed("TransportError")
    ELSE Raw(e.cls)

\* Urllib3ResponseAdapter.read, the except clauses, in their order; a helper
\* that returns makes read return None
ReadError(e) ==
    IF \E r \in READ_ERRORS : IsInstance(e.cls, r) THEN handle_read_errors(e)
    ELSE IF IsInstance(e.cls, "ProtocolError") THEN handle_protocol_error(e)
    ELSE IF IsInstance(e.cls, "HTTPError") THEN Typed("TransportError")
    ELSE Raw(e.cls)

(***************************************************************************)
(* urllib3.Retry as _real_handle builds it                                 *)
(***************************************************************************)
\* Retry.DEFAULT_ALLOWED_METHODS, restricted to Methods
AllowedMethods == {"GET"}
\* Retry.RETRY_AFTER_STATUS_CODES
RETRY_AFTER_STATUS_CODES == {413, 429, 503}
\* urllib3.response.HTTPResponse.REDIRECT_STATUSES
REDIRECT_STATUSES == {301, 302, 303, 307, 308}

\* urllib3.Retry(remove_headers_on_redirect=..., raise_on_redirect=False,
\* other=0, read=0, connect=0); total keeps its default, redirect and status
\* stay None and are never counted
NewRetry(remove) ==
    [total |-> RetryTotal, connect |-> 0, read |-> 0, other |-> 0,
     remove_headers_on_redirect |-> remove, raise_on_redirect |-> FALSE,
     raise_on_status |-> TRUE]

is_exhausted(r) ==
    \/ r.total < 0
    \/ r.connect < 0
    \/ r.read < 0
    \/ r.other < 0

\* Retry._is_connection_error / _is_read_error
is_connection_error(e) == IsInstance(e.cls, "ConnectTimeoutError")
is_read_error(e) ==
    IsInstance(e.cls, "ReadTimeoutError") \/ IsInstance(e.cls, "ProtocolError")

\* Retry.increment(error=e): [retry, raise], raise being "" (go on with the
\* new Retry), "max" (MaxRetryError(reason=e)) or "reraise" (e itself)
increment_error(r, method, e) ==
    LET n == IF is_connection_error(e)
                THEN [r EXCEPT !.total = @ - 1, !.connect = @ - 1]
             ELSE IF is_read_error(e)
                THEN [r EXCEPT !.total = @ - 1, !.read = @ - 1]
             ELSE [r EXCEPT !.total = @ - 1, !.other = @ - 1]
    IN  IF ~is_connection_error(e) /\ is_read_error(e) /\ method \notin AllowedMethods
        THEN [retry |-> r, raise |-> "reraise"]
        ELSE [retry |-> n, raise |-> IF is_exhausted(n) THEN "max" ELSE ""]

\* Retry.increment(response=...): a redirect or a retried status costs one
\* of total
increment_response(r) ==
    LET n == [r EXCEPT !.total = @ - 1]
    IN  [retry |-> n, raise |-> IF is_exhausted(n) THEN "max" ELSE ""]

\* Retry.is_retry (status_forcelist is empty, respect_retry_after_header True)
is_retry(r, method, status, has_retry_after) ==
    /\ method \in AllowedMethods
    /\ r.total # 0
    /\ has_retry_after
    /\ status \in RETRY_AFTER_STATUS_CODES

(***************************************************************************)
(* Headers: a header collection is a function from header names to values; *)
(* a value names the source that set it.                                   *)
(***************************************************************************)
EmptyHeaders == [n \in {} |-> ""]
Header(name, value) == [n \in {name} |-> value]

\* str.lower() on the header names of the model
Lower(name) ==
    CASE name = "Cookie" -> "cookie"
      [] name = "X-Token" -> "x-token"
      [] name = "Authorization" -> "authorization"
      [] name = "Accept-Encoding" -> "accept-encoding"
      [] name = "User-Agent" -> "user-agent"
      [] OTHER -> name

\* UniqueHTTPHeaderStore(a, b): one value per name, whatever its case, the
\* later store wins
MergeHeaders(a, b) ==
    LET kept == {n \in DOMAIN a : \A m \in DOMAIN b : Lower(m) # Lower(n)}
    IN  [n \in kept \cup DOMAIN b |-> IF n \in DOMAIN b THEN b[n] ELSE a[n]]

\* make_std_headers()
StdHeaders == Header("User-Agent", "std")

(***************************************************************************)
(* Requests the callers make                                               *)
(***************************************************************************)
Request(url, proxy, method, headers, unredirected, compression) ==
    [url |-> url, proxy |-> proxy, method |-> method, headers |-> headers,
     unredirected_headers |-> unredirected, compression |-> compression]

\* what the requests of one run have in common: the proxy, the method and
\* the unredirected headers; each request has its own url
Sessions ==
    [proxy : {NoProxy, [scheme |-> "", addr |-> "p"], LocalProxy,
              [scheme |-> "socks5", addr |-> "s"]},
     method : Methods,
     unredirected_headers : {EmptyHeaders, Header("X-Token", "unredirected")}]

SessionRequest(ses, url) ==
    Request(url, ses.proxy, ses.method, EmptyHeaders, ses.unredirected_headers, TRUE)

NoRequest == Request(NoURL, NoProxy, "", EmptyHeaders, EmptyHeaders, FALSE)

(***************************************************************************)
(* What the network answers to one physical call                           *)
(***************************************************************************)
Statuses == {200, 299, 300, 302, 503}

\* a response as it comes off the wire: status, Location (NoURL: none),
\* whether it has Retry-After and Set-Cookie
WireResponses ==
    [status : Statuses \ {302, 503}, location : {NoURL}, retry_after : {FALSE},
     set_cookie : BOOLEAN]
    \cup
    [status : {302}, location : URLs \cup {NoURL}, retry_after : {FALSE},
     set_cookie : BOOLEAN]
    \cup
    [status : {503}, location : {NoURL}, retry_after : BOOLEAN,
     set_cookie : BOOLEAN]

\* faults of one physical call, as HTTPConnectionPool.urlopen hands them to
\* Retry.increment
CallFaults ==
    { Fault("ConnectTimeoutError", "None", FALSE),
      Fault("NewConnectionError", "None", FALSE),
      Fault("ProxyError", "None", FALSE),
      Fault("SSLError", "None", FALSE),
      Fault("SSLError", "Other", FALSE),
      Fault("ReadTimeoutError", "None", FALSE),
      Fault("ProtocolError", "None", FALSE),
      Fault("ProtocolError", "Other", FALSE) }

\* what sock.connect raises in SocksHTTPConnection._new_conn: the builtin
\* TimeoutError, the SocksProxyError of .socksproxy, another OSError
SocketErrors == {"TimeoutError", "SocksProxyError", "OSError"}

\* SocksHTTPConnection._new_conn, the except clauses in their order.  "raise
\* urllib3.exceptions.ProxyError from e" and "raise ...NewConnectionError
\* from e" construct the class without arguments; ProxyError.__init__ needs
\* (message, error) and PoolError.__init__ needs (pool, message), so the
\* construction raises TypeError.
new_conn(err) ==
    IF err = "TimeoutError" THEN Fault("ConnectTimeoutError", "Other", FALSE)
    ELSE IF err = "SocksProxyError" THEN Fault("TypeError", "None", FALSE)
    ELSE Fault("TypeError", "None", FALSE)

\* HTTPConnectionPool.urlopen hands the urllib3 exceptions to Retry.increment;
\* what its except clause does not name passes through
UrlopenCatches(e) == IsInstance(e.cls, "HTTPError")

\* faults urlopen raises without a physical call: an HTTPError raised while
\* the pool or the connection is set up, and a MaxRetryError without reason
SetupFaults ==
    { Fault("HTTPError", "None", FALSE),
      Fault("MaxRetryError", "None", FALSE) }

\* faults of HTTPResponse.read, as its _error_catcher raises them
ReadFaults ==
    { Fault("ReadTimeoutError", "None", FALSE),
      Fault("IncompleteRead", "None", FALSE),
      Fault("SSLError", "None", FALSE),
      Fault("SSLError", "Other", FALSE),
      Fault("ProtocolError", "None", FALSE),
      Fault("ProtocolError", "None", TRUE),
      Fault("ProtocolError", "IncompleteRead", FALSE),
      Fault("ProtocolError", "Other", FALSE),
      Fault("DecodeError", "None", FALSE) }

(***************************************************************************)
(* What goes wrong on the network, and the urllib3 exception it becomes.   *)
(* An event is [phase, kind]: the phase of the physical call (connect: the *)
(* TCP or SOCKS connect; tunnel: CONNECT through an HTTP proxy; tls: the   *)
(* handshake; send: writing the request; response: waiting for the status  *)
(* line and headers; body: read() on the response) and the kind of failure *)
(* (timeout; oserror: refused, reset and other OS errors; socks: a SOCKS   *)
(* protocol failure; tlserror; badstatus: a malformed response; truncated: *)
(* the body ends before its declared length; decode: a bad encoding).      *)
(***************************************************************************)
Event(phase, kind) == [phase |-> phase, kind |-> kind]
NoEvent == Event("", "")

CallEvents ==
    { Event("connect", "timeout"), Event("connect", "oserror"),
      Event("connect", "socks"),
      Event("tunnel", "timeout"), Event("tunnel", "oserror"),
      Event("tls", "timeout"), Event("tls", "tlserror"),
      Event("send", "timeout"), Event("send", "oserror"),
      Event("response", "timeout"), Event("response", "oserror"),
      Event("response", "badstatus") }

ReadEvents ==
    { Event("body", "timeout"), Event("body", "oserror"),
      Event("body", "tlserror"), Event("body", "truncated"),
      Event("body", "decode") }

\* an https url goes through an HTTP proxy by a CONNECT tunnel
Tunnels(variant, scheme) == variant = "ProxyManager" /\ scheme = "https"

\* the events possible on a call for a url of scheme through a pool manager
\* of variant
EventsOn(variant, scheme) ==
    { ev \in CallEvents :
        /\ ev.kind = "socks" => variant = "SocksProxyManager"
        /\ ev.phase = "tunnel" => Tunnels(variant, scheme)
        /\ ev.phase = "tls" => scheme = "https" }

\* what sock.connect raises in SocksHTTPConnection._new_conn on an event
SocketError(ev) ==
    IF ev.kind = "timeout" THEN "TimeoutError"
    ELSE IF ev.kind = "socks" THEN "SocksProxyError"
    ELSE "OSError"

\* HTTPConnectionPool.urlopen, its except clause: a socket error or an
\* HTTPException becomes ProxyError when the pool has a proxy (a pool of a
\* ProxyManager), ProtocolError otherwise
Aborted(variant) ==
    IF variant = "ProxyManager" THEN {Fault("ProxyError", "None", FALSE)}
    ELSE {e \in CallFaults : e.cls = "ProtocolError"}

\* the exception an event of a physical call becomes before Retry.increment
\* or, when urlopen does not catch it, as it leaves urlopen
call_faults(ev, variant, scheme) ==
    CASE ev.phase = "connect" ->
            IF variant = "SocksProxyManager" THEN {new_conn(SocketError(ev))}
            ELSE IF ev.kind = "timeout"
                 THEN {Fault("ConnectTimeoutError", "None", FALSE)}
            ELSE IF variant = "ProxyManager"
                 THEN {Fault("ProxyError", "None", FALSE)}
            ELSE {Fault("NewConnectionError", "None", FALSE)}
      [] ev.phase = "tunnel" -> {Fault("ProxyError", "None", FALSE)}
      [] ev.phase = "tls" ->
            IF ev.kind = "tlserror" THEN {e \in CallFaults : e.cls = "SSLError"}
            ELSE IF Tunnels(variant, scheme)
                 THEN {Fault("ProxyError", "None", FALSE)}
            ELSE {Fault("ReadTimeoutError", "None", FALSE)}
      [] ev.phase = "send" -> Aborted(variant)
      [] ev.phase = "response" ->
            IF ev.kind = "timeout" THEN {Fault("ReadTimeoutError", "None", FALSE)}
            ELSE IF ev.kind = "badstatus"
                 THEN {e \in CallFaults : e.cls = "ProtocolError"}
            ELSE Aborted(variant)
      [] OTHER -> {}

\* the exception an event during HTTPResponse.read becomes; urllib3 reports
\* a truncated body as its IncompleteRead or as a ProtocolError
read_faults(ev) ==
    CASE ev.kind = "timeout" -> {Fault("ReadTimeoutError", "None", FALSE)}
      [] ev.kind = "tlserror" -> {e \in ReadFaults : e.cls = "SSLError"}
      [] ev.kind = "oserror" ->
            {e \in ReadFaults : e.cls = "ProtocolError" /\ ~e.msgIR
                                  /\ e.cause # "IncompleteRead"}
      [] ev.kind = "truncated" ->
            {e \in ReadFaults : \/ e.cls = "IncompleteRead"
                                \/ e.cls = "ProtocolError" /\ e.cause # "Other"}
      [] ev.kind = "decode" -> {Fault("DecodeError", "None", FALSE)}
      [] OTHER -> {}

(***************************************************************************)
(* State.  Objects nothing refers to any more are not kept: a connection   *)
(* that was closed and dropped leaves conns, a response whose connection   *)
(* handle was cleared leaves resps, a pool manager that setdefault did not *)
(* register is only counted.                                               *)
(***************************************************************************)
VARIABLES
    pools,      \* self.pools: registry key -> pool manager
    created,    \* registry key -> how many pool managers _create_pm built for it
    queues,     \* <<pool manager id, origin>> -> the idle queue of that pool
    conns,      \* the connections in use or idle: id -> [pm, origin, sock]
    resps,      \* the responses callers hold, by the connection that carried them
    cookiejar,  \* self.cookiejar: the hosts it holds a cookie for
    frame,      \* per caller: the locals of its running get_pool/_real_handle
    lastread,   \* the latest read(): what happened, the fault, what it raised
    got,        \* what get_pool has returned: {<<key, pool manager id>>}
    nreq,       \* per caller: get_pool calls finished
    ncalls,     \* physical calls issued so far
    session,    \* what the requests of this run have in common
    params,     \* self.ydl.params: compat_opts and http_headers
    runtime,    \* compat_brotli (its __name__, "" for None), urllib3.__version__
    debug,      \* the messages write_debug(..., only_once=True) has written
    others,     \* self.pools of the other Urllib3RH instances, by instance
    adapter     \* the latest Urllib3ResponseAdapter built: its res and its _url

vars ==
    <<pools, created, queues, conns, resps, cookiejar, frame, lastread, got,
      nreq, ncalls, session,
                   params, runtime, debug, others, adapter>>

\* maxsize of an HTTPConnectionPool that _create_pm does not override
PoolMaxsize == 1

(***************************************************************************)
(* URL texts as urlparse sees them: [scheme, host, port, path, query], ""   *)
(* for a part that is absent; query is "none" (no "?"), "empty" (a "?"     *)
(* with nothing after it) or the query text.  A text without scheme and    *)
(* netloc is a relative reference such as /x.                              *)
(***************************************************************************)
UrlText(scheme, host, port, path, query) ==
    [scheme |-> scheme, host |-> host, port |-> port, path |-> path,
     query |-> query]
\* None, which the truth test of __init__ treats as the empty text
UrlNone == UrlText("", "", "", "", "none")

\* no adapter has been built
NoAdapter ==
    [res |-> [request_url |-> UrlNone, history |-> <<>>,
              connection |-> [host |-> "", port |-> ""]],
     url |-> UrlNone]

\* the Urllib3RH instances besides the one whose state is pools
OtherInstances == {1, 2}

(***************************************************************************)
(* The configuration and the runtime of the handler                        *)
(***************************************************************************)
\* self.ydl.params.get('compat_opts', []) and .get('http_headers')
CompatOpts == SUBSET {"no-urllib3", "no-keep-subs"}
ParamSets ==
    [compat_opts : CompatOpts,
     http_headers : {EmptyHeaders, Header("Accept-Encoding", "session")}]
DefaultParams == [compat_opts |-> {}, http_headers |-> EmptyHeaders]

\* self.ydl.params.get('http_headers')
SessionHeaders == params.http_headers

\* urllib3.__version__, the sequence of its characters
Version_1_26_8 == <<"1", ".", "2", "6", ".", "8">>
Version_1_26_9 == <<"1", ".", "2", "6", ".", "9">>
Version_1_26_16 == <<"1", ".", "2", "6", ".", "1", "6">>
Version_2_0_7 == <<"2", ".", "0", ".", "7">>
Versions == {Version_1_26_8, Version_1_26_9, Version_1_26_16, Version_2_0_7}

\* compat_brotli: None (""), or the module of that __name__
Brotlis == {"", "brotli", "brotlicffi"}
Runtimes == [brotli : Brotlis, version : Versions]
DefaultRuntime == [brotli |-> "", version |-> Version_1_26_16]

\* ord() of the characters of a version
Ord(ch) ==
    CASE ch = "." -> 46 [] ch = "0" -> 48 [] ch = "1" -> 49 [] ch = "2" -> 50
      [] ch = "3" -> 51 [] ch = "4" -> 52 [] ch = "5" -> 53 [] ch = "6" -> 54
      [] ch = "7" -> 55 [] ch = "8" -> 56 [] ch = "9" -> 57

\* a < b on str
RECURSIVE StrLess(_, _)
StrLess(a, b) ==
    IF b = <<>> THEN FALSE
    ELSE IF a = <<>> THEN TRUE
    ELSE IF Head(a) = Head(b) THEN StrLess(Tail(a), Tail(b))
    ELSE Ord(Head(a)) < Ord(Head(b))

\* lines 39-46 with 'br' appended whenever compat_brotli is set
SUPPORTED_ENCODINGS_any_brotli ==
    IF runtime.brotli # ""
    THEN <<"gzip", "deflate", "br">>
    ELSE <<"gzip", "deflate">>

\* lines 39-46: the list, with 'br' appended under the condition of line 45
SUPPORTED_ENCODINGS ==
    IF /\ runtime.brotli # ""
       /\ ~(runtime.brotli = "brotlicffi" /\ StrLess(runtime.version, Version_1_26_9))
    THEN <<"gzip", "deflate", "br">>
    ELSE <<"gzip", "deflate">>

\* the numbers of a version, as (1, 26, 9)
RECURSIVE VersionTuple(_, _)
VersionTuple(v, acc) ==
    IF v = <<>> THEN <<acc>>
    ELSE IF Head(v) = "." THEN <<acc>> \o VersionTuple(Tail(v), 0)
    ELSE VersionTuple(Tail(v), acc * 10 + Ord(Head(v)) - 48)

\* a >= b on tuples of numbers
RECURSIVE TupleAtLeast(_, _)
TupleAtLeast(a, b) ==
    IF b = <<>> THEN TRUE
    ELSE IF a = <<>> THEN FALSE
    ELSE IF Head(a) = Head(b) THEN TupleAtLeast(Tail(a), Tail(b))
    ELSE Head(a) > Head(b)

\* line 44: urllib3 decodes br with the brotli module in every version of
\* the model, and with brotlicffi from 1.26.9 on
DecodesBrotli(rt) ==
    \/ rt.brotli = "brotli"
    \/ /\ rt.brotli = "brotlicffi"
       /\ TupleAtLeast(VersionTuple(rt.version, 0), <<1, 26, 9>>)

\* sep.join(seq)
RECURSIVE Join(_, _)
Join(sep, seq) ==
    IF seq = <<>> THEN ""
    ELSE IF Len(seq) = 1 THEN seq[1]
    ELSE seq[1] \o sep \o Join(sep, Tail(seq))

EmptyMap == [k \in {} |-> 0]
MapSet(f, k, v) == [j \in DOMAIN f \cup {k} |-> IF j = k THEN v ELSE f[j]]
MapDel(f, k) == [j \in DOMAIN f \ {k} |-> f[j]]

NoPm == [id |-> <<NoProxyKey, 0>>, proxy |-> NoProxy, variant |-> ""]
NoRead == [event |-> NoEvent, fault |-> NoFault, err |-> NoError]

IdleFrame ==
    [pc |-> "idle", op |-> "", request |-> NoRequest, proxy |-> NoProxy,
     pm_new |-> NoPm, pm |-> NoPm, retries |-> NewRetry({}),
     headers |-> EmptyHeaders, url |-> NoURL, method |-> "", conn |-> 0,
     res |-> 0, status |-> 0, set_cookie |-> FALSE, err |-> NoError,
     redirect_loop |-> FALSE, kwargs |-> "", answer |-> FALSE,
     super_called |-> FALSE,
     \* observation of the running call
     calls |-> 0, redirects |-> 0, faulted |-> FALSE, harvested |-> FALSE,
     crossed |-> FALSE, jar0 |-> {}, event |-> NoEvent, unfollowed |-> FALSE,
     request0 |-> NoRequest, steps |-> <<>>]

Init ==
    /\ pools = EmptyMap
    /\ created = EmptyMap
    /\ queues = EmptyMap
    /\ conns = EmptyMap
    /\ resps = EmptyMap
    /\ cookiejar \in SUBSET Hosts
    /\ frame = [c \in Callers |-> IdleFrame]
    /\ lastread = NoRead
    /\ got = {}
    /\ nreq = [c \in Callers |-> 0]
    /\ ncalls = 0
    /\ session \in Sessions
    /\ params = DefaultParams
    /\ runtime = DefaultRuntime
    /\ debug = {}
    /\ others = [i \in OtherInstances |-> EmptyMap]
    /\ adapter = NoAdapter

(***************************************************************************)
(* Urllib3RH._create_pm and get_pool                                       *)
(***************************************************************************)
SocksSchemes == {"socks4", "socks4a", "socks5", "socks5h"}
\* proxy.startswith('socks'), a test on the text of the proxy: the text
\* begins with the scheme when there is one, and no scheme-less address of
\* the model begins with "socks"
\* "socks" (the scheme texts of the model that begin with these letters are
\* the four SOCKS schemes and "socks")
StartsWithSocks(proxy) == proxy.scheme \in SocksSchemes \cup {"socks"}

\* proxy or '__noproxy__'
PoolKey(proxy) == IF proxy # NoProxy THEN proxy ELSE NoProxyKey

\* _create_pm without the SOCKS branch: every proxy gets a ProxyManager
create_pm_never_socks(proxy, n) ==
    [id |-> <<PoolKey(proxy), n>>,
     proxy |-> proxy,
     variant |-> IF proxy # NoProxy THEN "ProxyManager" ELSE "PoolManager"]

\* Urllib3RH._create_pm: the manager built for proxy, the n-th for its key
create_pm(proxy, n) ==
    [id |-> <<PoolKey(proxy), n>>,
     proxy |-> proxy,
     variant |-> IF proxy # NoProxy
                 THEN IF StartsWithSocks(proxy) THEN "SocksProxyManager"
                      ELSE "ProxyManager"
                 ELSE "PoolManager"]

\* urllib3.ProxyManager.__init__ raises ProxySchemeUnknown for a proxy_url
\* whose parsed scheme is neither http nor https
create_pm_raises(proxy) ==
    /\ proxy # NoProxy
    /\ ~StartsWithSocks(proxy)
    /\ parse_url_scheme(proxy) \notin {"http", "https"}

\* SocksProxyManager.__init__ calls socks_create_proxy_args(socks_proxy)
\* before the manager exists; for a text that begins with "socks" without
\* being one of the four SOCKS schemes the call either returns the options
\* or raises
socks_create_proxy_args_may_raise(proxy) ==
    /\ proxy # NoProxy
    /\ StartsWithSocks(proxy)
    /\ proxy.scheme \notin SocksSchemes

\* SocksProxyManager.pool_classes_by_scheme and the pool classes of the
\* other managers: the kind of connection a pool of pm makes for scheme
ConnectionCls(pm, scheme) ==
    IF pm.variant = "SocksProxyManager"
    THEN IF scheme = "http" THEN "SocksHTTPConnection"
         ELSE "SocksHTTPSConnection"
    ELSE IF scheme = "http" THEN "HTTPConnection" ELSE "HTTPSConnection"

Created(key) == IF key \in DOMAIN created THEN created[key] ELSE 0

\* self.pools[key] = pm: a registry that replaces the entry of key
setdefault_replacing(registry, key, pm) == MapSet(registry, key, pm)

\* a registry that keeps only the entry asked for last
setdefault_evicting(registry, key, pm) ==
    IF key \in DOMAIN registry THEN MapSet(EmptyMap, key, registry[key])
    ELSE MapSet(EmptyMap, key, pm)

\* dict.setdefault(key, pm) on self.pools
\* self.pools read through the class: every instance sees the one registry
self_pools_of_class(inst, ps, os) == ps

\* self.pools of instance inst, the attribute _initialize has set on it;
\* instance 0 is the one the callers of the model use
self_pools(inst, ps, os) == IF inst = 0 THEN ps ELSE os[inst]

setdefault(registry, key, pm) ==
    IF key \in DOMAIN registry THEN registry ELSE MapSet(registry, key, pm)

\* get_pool is called with proxy
GetPool(c, proxy) ==
    /\ frame[c].pc = "idle"
    /\ nreq[c] < MaxRequests
    /\ frame' = [frame EXCEPT ![c] = [IdleFrame EXCEPT !.pc = "create_pm",
                                         !.op = "get_pool", !.proxy = proxy]]
    /\ UNCHANGED <<pools, created, queues, conns, resps, cookiejar, lastread,
                   got, nreq, ncalls, session,
                   params, runtime, debug, others, adapter>>

\* get_pool, the argument self._create_pm(proxy), evaluated before setdefault
CreatePm(c) ==
    LET key == PoolKey(frame[c].proxy)
        n == Created(key) + 1
        e == IF create_pm_raises(frame[c].proxy)
             THEN Fault("ProxySchemeUnknown", "None", FALSE)
             ELSE Fault("Exception", "None", FALSE)
    IN  /\ frame[c].pc = "create_pm"
        /\ \/ /\ \/ create_pm_raises(frame[c].proxy)
                 \/ socks_create_proxy_args_may_raise(frame[c].proxy)
              /\ created' = created
              /\ frame' = [frame EXCEPT ![c] =
                      IF @.op = "get_pool"
                      THEN [@ EXCEPT !.pc = "got_pool", !.err = Raw(e.cls)]
                      ELSE [@ EXCEPT !.pc = "raised", !.err = DispatchError(e)]]
           \/ /\ ~create_pm_raises(frame[c].proxy)
              /\ created' = MapSet(created, key, n)
              /\ frame' = [frame EXCEPT ![c].pm_new = create_pm(frame[c].proxy, n),
                                        ![c].pc = "setdefault"]
        /\ UNCHANGED <<pools, queues, conns, resps, cookiejar, lastread, got,
                       nreq, ncalls, session,
                   params, runtime, debug, others, adapter>>

\* get_pool, self.pools.setdefault(...) and the return
Setdefault(c) ==
    LET key == PoolKey(frame[c].proxy)
        reg == setdefault(self_pools(0, pools, others), key, frame[c].pm_new)
    IN  /\ frame[c].pc = "setdefault"
        /\ pools' = reg
        /\ got' = got \cup {<<key, reg[key].id>>}
        /\ frame' = [frame EXCEPT ![c].pm = reg[key],
                        ![c].pc = IF frame[c].op = "get_pool" THEN "got_pool"
                                  ELSE "send",
                        ![c].steps = IF frame[c].op = "get_pool" THEN @
                                     ELSE Append(@, "dispatch")]
        /\ UNCHANGED <<created, queues, conns, resps, cookiejar, lastread, nreq,
                       ncalls, session,
                   params, runtime, debug, others, adapter>>

\* the caller of get_pool has its pool, or the exception of _create_pm
GetPoolDone(c) ==
    /\ frame[c].pc = "got_pool"
    /\ frame' = [frame EXCEPT ![c] = IdleFrame]
    /\ nreq' = [nreq EXCEPT ![c] = @ + 1]
    /\ UNCHANGED <<pools, created, queues, conns, resps, cookiejar, lastread,
                   got, ncalls, session,
                   params, runtime, debug, others, adapter>>

NextPool ==
    \E c \in Callers :
        \/ \E proxy \in Proxies : GetPool(c, proxy)
        \/ CreatePm(c)
        \/ Setdefault(c)
        \/ GetPoolDone(c)

\* callers of get_pool, interleaved at the two steps of its one statement
SpecPool == Init /\ [][NextPool]_vars

(***************************************************************************)
(* urllib3's pools and connections                                         *)
(***************************************************************************)
\* PoolManager.connection_from_host: the HTTPConnectionPool serving url.  A
\* ProxyManager sends every http url through the pool of the proxy itself.
PoolOrigin(pm, url) ==
    IF pm.variant = "ProxyManager" /\ url.scheme = "http"
    THEN [scheme |-> pm.proxy.scheme, host |-> pm.proxy.addr]
    ELSE url

\* HTTPConnectionPool.is_same_host: scheme, host and port are compared
is_same_host(origin, url) == origin = url

\* the queue of a pool starts with maxsize placeholders (0 is None)
QueueOf(qs, k) == IF k \in DOMAIN qs THEN qs[k] ELSE [i \in 1..PoolMaxsize |-> 0]

\* a _get_conn that leaves the connection it hands out in the queue
GetConn_peek(qs, cs, k) ==
    LET q == QueueOf(qs, k)
        x == IF q = <<>> THEN 0 ELSE q[Len(q)]
        rest == IF q = <<>> THEN q ELSE SubSeq(q, 1, Len(q) - 1)
        new == CHOOSE i \in 1..(Cardinality(DOMAIN cs) + 1) :
                   /\ i \notin DOMAIN cs
                   /\ \A j \in 1..(i - 1) : j \in DOMAIN cs
    IN  IF x = 0
        THEN [queues |-> MapSet(qs, k, rest),
              conns |-> MapSet(cs, new, [pm |-> k[1], origin |-> k[2], sock |-> TRUE]),
              conn |-> new]
        ELSE [queues |-> MapSet(qs, k, q),
              conns |-> [cs EXCEPT ![x].sock = TRUE],
              conn |-> x]

\* HTTPConnectionPool._get_conn: the last queued connection (reopened when
\* dropped) or, for a placeholder or an empty queue, a new connection
GetConn(qs, cs, k) ==
    LET q == QueueOf(qs, k)
        x == IF q = <<>> THEN 0 ELSE q[Len(q)]
        rest == IF q = <<>> THEN q ELSE SubSeq(q, 1, Len(q) - 1)
        new == CHOOSE i \in 1..(Cardinality(DOMAIN cs) + 1) :
                   /\ i \notin DOMAIN cs
                   /\ \A j \in 1..(i - 1) : j \in DOMAIN cs
    IN  IF x = 0
        THEN [queues |-> MapSet(qs, k, rest),
              conns |-> MapSet(cs, new, [pm |-> k[1], origin |-> k[2], sock |-> TRUE]),
              conn |-> new]
        ELSE [queues |-> MapSet(qs, k, rest),
              conns |-> [cs EXCEPT ![x].sock = TRUE],
              conn |-> x]

\* conn.close()
CloseConn(cs, x) == IF x = 0 THEN cs ELSE [cs EXCEPT ![x].sock = FALSE]
\* conn.close() on a connection nothing refers to afterwards
DropConn(cs, x) == MapDel(cs, x)

\* HTTPConnectionPool._put_conn: queue x, or close and drop it when the queue
\* is full
PutConn(qs, cs, k, x) ==
    LET q == QueueOf(qs, k)
    IN  IF Len(q) < PoolMaxsize
        THEN [queues |-> MapSet(qs, k, Append(q, x)), conns |-> cs]
        ELSE [queues |-> MapSet(qs, k, q), conns |-> DropConn(cs, x)]

\* connections waiting in some queue: the idle set
IdleConns ==
    {x \in DOMAIN conns : \E k \in DOMAIN queues : \E i \in DOMAIN queues[k] :
                              queues[k][i] = x}

(***************************************************************************)
(* urllib3 responses: [connection (the _connection handle, 0 is None),     *)
(* fp_closed, override (release_conn replaced by Urllib3HTTPError), owner  *)
(* (the caller holding it)]                                                *)
(***************************************************************************)
NewResponse(c, conn) ==
    [connection |-> conn, fp_closed |-> FALSE, override |-> FALSE, owner |-> c]

\* HTTPResponse.release_conn as urllib3 defines it
release_conn_original(qs, cs, rs) ==
    IF rs.connection = 0
    THEN [queues |-> qs, conns |-> cs, res |-> rs]
    ELSE LET k == <<cs[rs.connection].pm, cs[rs.connection].origin>>
             put == PutConn(qs, cs, k, rs.connection)
         IN  [queues |-> put.queues, conns |-> put.conns,
              res |-> [rs EXCEPT !.connection = 0]]

\* a release_conn_override that closes the connection and keeps the handle
release_conn_override_keeping_handle(qs, cs, rs) ==
    [queues |-> qs, conns |-> CloseConn(cs, rs.connection), res |-> rs]

\* Urllib3HTTPError.__init__, release_conn_override
release_conn_override(qs, cs, rs) ==
    IF rs.connection # 0
    THEN [queues |-> qs, conns |-> DropConn(cs, rs.connection),
          res |-> [rs EXCEPT !.connection = 0]]
    ELSE [queues |-> qs, conns |-> cs, res |-> rs]

\* self.release_conn() of a response class without instance attribute
release_conn_of_class(qs, cs, rs) == release_conn_original(qs, cs, rs)

\* a release_conn that queues the connection and keeps the handle
release_conn_keeping_handle(qs, cs, rs) ==
    LET r == release_conn_original(qs, cs, rs)
    IN  [queues |-> r.queues, conns |-> r.conns, res |-> rs]

\* self.release_conn(): the instance attribute when the error has set it
release_conn(qs, cs, rs) ==
    IF rs.override THEN release_conn_override(qs, cs, rs)
    ELSE release_conn_original(qs, cs, rs)

\* HTTPResponse.read to the end of the body: the body is closed and the
\* connection released
ReadToEnd(qs, cs, rs) ==
    release_conn(qs, cs, [rs EXCEPT !.fp_closed = TRUE])

\* HTTPResponse.read failing: the connection is closed, then released
\* a failing read that releases the connection without closing it
ReadFailing_open(qs, cs, rs) ==
    release_conn(qs, cs, [rs EXCEPT !.fp_closed = TRUE])

ReadFailing(qs, cs, rs) ==
    release_conn(qs, CloseConn(cs, rs.connection), [rs EXCEPT !.fp_closed = TRUE])

\* HTTPResponse.drain_conn before the next call: the rest of the body is
\* read and the connection released
DrainConn(qs, cs, rs) == ReadToEnd(qs, cs, rs)

\* HTTPResponse.close: body and connection are closed, the handle is kept
CloseResponse(cs, rs) ==
    [conns |-> CloseConn(cs, rs.connection), res |-> [rs EXCEPT !.fp_closed = TRUE]]

\* resps with the response carried by connection k now being rs
Store(rp, k, rs) == IF rs.connection = 0 THEN MapDel(rp, k) ELSE MapSet(rp, k, rs)

(***************************************************************************)
(* The cookie store                                                        *)
(***************************************************************************)
\* cookiejar.add_cookie_header(request): a Cookie header for the request's
\* host, as an unredirected header, unless the request has one
add_cookie_header(jar, request) ==
    IF /\ request.url.host \in jar
       /\ "Cookie" \notin DOMAIN request.headers
       /\ "Cookie" \notin DOMAIN request.unredirected_headers
    THEN [request EXCEPT !.unredirected_headers =
             MergeHeaders(@, Header("Cookie", "jar"))]
    ELSE request

\* cookiejar.extract_cookies(res, request): a cookie the response sets is
\* stored for the host of the request
extract_cookies(jar, set_cookie, request) ==
    IF set_cookie THEN jar \cup {request.url.host} ELSE jar

\* a store fed by every response of the traversal
hop_cookies_harvested(jar, set_cookie, request) ==
    extract_cookies(jar, set_cookie, request)

\* the store after a response that urlopen itself consumed (a followed
\* redirect, a retried status): urlopen is given no cookie store, and lines
\* 231-232 see only the response urlopen returns
hop_cookies(jar, set_cookie, request) == jar

\* bool(self.cookiejar): a CookieJar has __len__, so an empty one is false
Truthy(jar) == jar # {}

(***************************************************************************)
(* Urllib3RH._real_handle                                                  *)
(***************************************************************************)
\* lines 178-185 with the request's headers as the last argument of the store
BuildHeaders_request_last(request) ==
    LET merged == MergeHeaders(MergeHeaders(MergeHeaders(StdHeaders, SessionHeaders),
                                            request.unredirected_headers),
                               request.headers)
        withEnc == IF \E n \in DOMAIN merged : Lower(n) = "accept-encoding"
                   THEN merged
                   ELSE MergeHeaders(merged, Header("Accept-Encoding",
                                                   Join(", ", SUPPORTED_ENCODINGS)))
    IN  IF request.compression THEN withEnc
        ELSE [n \in {m \in DOMAIN withEnc : Lower(m) # "accept-encoding"} |-> withEnc[n]]

\* lines 178-179: the header store built from the four sources
MergedHeaders(request) ==
    MergeHeaders(MergeHeaders(MergeHeaders(StdHeaders, SessionHeaders),
                              request.headers),
                 request.unredirected_headers)

\* the header store with lines 181-182 left out
WithEncoding_absent(request) == MergedHeaders(request)

\* lines 178-182: the store after the default Accept-Encoding is added
WithEncoding(request) ==
    LET merged == MergedHeaders(request)
    IN  IF \E n \in DOMAIN merged : Lower(n) = "accept-encoding"
        THEN merged
        ELSE MergeHeaders(merged, Header("Accept-Encoding",
                                        Join(", ", SUPPORTED_ENCODINGS)))

\* lines 184-185: del headers['accept-encoding'] raises KeyError when the
\* store has no such name
del_raises(request) ==
    /\ ~request.compression
    /\ ~\E n \in DOMAIN WithEncoding(request) : Lower(n) = "accept-encoding"

\* lines 178-185: the merged headers and the Accept-Encoding rule
BuildHeaders(request) ==
    LET withEnc == WithEncoding(request)
    IN  IF request.compression THEN withEnc
        ELSE [n \in {m \in DOMAIN withEnc : Lower(m) # "accept-encoding"} |-> withEnc[n]]

\* lines 187-192: a proxy in which parse_url finds no scheme takes the scheme
\* of the url
ResolveProxy(request) ==
    IF request.proxy # NoProxy /\ parse_url_scheme(request.proxy) = ""
    THEN [request.proxy EXCEPT !.scheme = request.url.scheme]
    ELSE request.proxy

\* a Retry built from the unredirected names the caller gave, without the
\* Cookie the store injected
Retries_before_injection(request) ==
    NewRetry({Lower(n) : n \in DOMAIN request.unredirected_headers} \ {"cookie"})

\* lines 175-177: the Retry built for the request
Retries(request) ==
    NewRetry({Lower(n) : n \in DOMAIN request.unredirected_headers})

\* _real_handle up to the call of get_pool
RealHandle(c, r) ==
    LET request == add_cookie_header(cookiejar, r)
    IN  /\ frame[c].pc = "idle"
        /\ ncalls < MaxCalls
        /\ ncalls' = ncalls + 1
        /\ lastread' = NoRead
        /\ frame' = [frame EXCEPT ![c] =
                [IdleFrame EXCEPT !.pc = "create_pm", !.op = "_real_handle",
                    !.request = request, !.retries = Retries(request),
                    !.headers = BuildHeaders(request),
                    !.proxy = ResolveProxy(request),
                    !.url = request.url, !.method = request.method,
                    !.jar0 = cookiejar, !.request0 = r,
                    !.steps = <<"cookie-injection", "header-merge">>]]
        /\ UNCHANGED <<pools, created, queues, conns, resps, cookiejar, got,
                       nreq, session,
                   params, runtime, debug, others, adapter>>

\* lines 207-225: urlopen raised e
Raise(f, e) ==
    [f EXCEPT !.pc = "raised", !.err = DispatchError(e), !.conn = 0]

\* urlopen raises before any physical call is made
SetupFault(c, e) ==
    /\ frame[c].pc = "send"
    /\ frame[c].calls = 0
    /\ frame' = [frame EXCEPT ![c] = Raise(@, e)]
    /\ UNCHANGED <<pools, created, queues, conns, resps, cookiejar, lastread,
                   got, nreq, ncalls, session,
                   params, runtime, debug, others, adapter>>

\* urlopen takes a connection of the pool serving the url and sends the call
Send(c) ==
    LET f == frame[c]
        origin == PoolOrigin(f.pm, f.url)
        g == GetConn(queues, conns, <<f.pm.id, origin>>)
    IN  /\ f.pc = "send"
        /\ IF f.calls = 0 THEN ncalls' = ncalls
           ELSE ncalls < MaxCalls /\ ncalls' = ncalls + 1
        /\ queues' = g.queues
        /\ conns' = g.conns
        /\ frame' = [frame EXCEPT ![c].pc = "wait", ![c].conn = g.conn,
                        ![c].calls = @ + 1]
        /\ UNCHANGED <<pools, created, resps, cookiejar, lastread, got, nreq,
                       session,
                   params, runtime, debug, others, adapter>>

\* the physical call fails on ev, raising e: the connection is closed and
\* dropped, Retry.increment decides between another call and raising
RecvFault(c, ev, e) ==
    LET f == frame[c]
        origin == PoolOrigin(f.pm, f.url)
        put == PutConn(queues, DropConn(conns, f.conn), <<f.pm.id, origin>>, 0)
        inc == increment_error(f.retries, f.method, e)
    IN  /\ f.pc = "wait"
        /\ ev \in EventsOn(f.pm.variant, f.url.scheme)
        /\ e \in call_faults(ev, f.pm.variant, f.url.scheme)
        /\ queues' = put.queues
        /\ conns' = put.conns
        /\ frame' = [frame EXCEPT ![c] =
                IF ~UrlopenCatches(e)
                THEN [Raise(f, e) EXCEPT !.faulted = TRUE, !.event = ev]
                ELSE IF inc.raise = ""
                THEN [f EXCEPT !.pc = "send", !.retries = inc.retry, !.conn = 0,
                               !.faulted = TRUE]
                ELSE [Raise(f, IF inc.raise = "max" THEN MaxRetryError(e) ELSE e)
                         EXCEPT !.faulted = TRUE, !.event = ev]]
        /\ UNCHANGED <<pools, created, resps, cookiejar, lastread, got, nreq,
                       ncalls, session,
                   params, runtime, debug, others, adapter>>

\* a redirect that leaves the headers alone (remove_headers_on_redirect empty)
StripHeaders_none(f, origin, location) == f.headers

\* a redirect that strips Authorization besides the names it was given, as
\* the default remove_headers_on_redirect of urllib3 would
StripHeaders_authorization(f, origin, location) ==
    IF ~is_same_host(origin, location)
    THEN [n \in {m \in DOMAIN f.headers :
                    Lower(m) \notin f.retries.remove_headers_on_redirect
                                        \cup {"authorization"}}
            |-> f.headers[n]]
    ELSE f.headers

\* PoolManager.urlopen: the headers left after a redirect to location
StripHeaders(f, origin, location) ==
    IF f.retries.remove_headers_on_redirect # {} /\ ~is_same_host(origin, location)
    THEN [n \in {m \in DOMAIN f.headers :
                    Lower(m) \notin f.retries.remove_headers_on_redirect}
            |-> f.headers[n]]
    ELSE f.headers

\* 200 <= res.status <= 300
IsSuccess_closed(status) == 200 <= status /\ status <= 300

\* 200 <= res.status < 300
IsSuccess(status) == 200 <= status /\ status < 300

\* lines 227-234 with the response w, held in rs, that the dispatch returned
Finish(f, w, rs, jar) ==
    IF ~IsSuccess(w.status)
    THEN [frame |-> [f EXCEPT !.pc = "raised", !.err = Typed("HTTPError"),
                              !.redirect_loop = (f.retries.total = 0),
                              !.steps = Append(@, "response-adapt"),
                              !.res = f.conn, !.conn = 0, !.status = w.status,
                              !.set_cookie = w.set_cookie,
                              !.unfollowed = /\ w.status \in REDIRECT_STATUSES
                                             /\ w.location # NoURL],
          res |-> [rs EXCEPT !.override = TRUE], jar |-> jar]
    ELSE [frame |-> [f EXCEPT !.pc = "returned", !.res = f.conn, !.conn = 0,
                              !.status = w.status, !.set_cookie = w.set_cookie,
                              !.harvested = Truthy(jar),
                              !.steps = IF Truthy(jar)
                                        THEN @ \o <<"response-adapt", "cookie-harvest">>
                                        ELSE Append(@, "response-adapt")],
          res |-> rs,
          jar |-> IF Truthy(jar) THEN extract_cookies(jar, w.set_cookie, f.request)
                  ELSE jar]

\* the physical call is answered with w
RecvResponse(c, w) ==
    LET f == frame[c]
        origin == PoolOrigin(f.pm, f.url)
        rs == NewResponse(c, f.conn)
        retry == is_retry(f.retries, f.method, w.status, w.retry_after)
        redirect == ~retry /\ w.status \in REDIRECT_STATUSES /\ w.location # NoURL
        inc == increment_response(f.retries)
        drained == DrainConn(queues, conns, rs)
        fin == Finish(f, w, rs, cookiejar)
    IN  /\ f.pc = "wait"
        /\ IF retry /\ inc.raise = "max"
           THEN \* HTTPConnectionPool.urlopen: raise_on_status
                /\ queues' = drained.queues
                /\ conns' = drained.conns
                /\ frame' = [frame EXCEPT ![c] =
                        Raise(f, MaxRetryError(Fault("ResponseError", "None", FALSE)))]
                /\ cookiejar' = hop_cookies(cookiejar, w.set_cookie, f.request)
                /\ UNCHANGED resps
           ELSE IF retry
           THEN \* HTTPConnectionPool.urlopen: the same call again
                /\ queues' = drained.queues
                /\ conns' = drained.conns
                /\ frame' = [frame EXCEPT ![c].pc = "send", ![c].conn = 0,
                                ![c].retries = inc.retry]
                /\ cookiejar' = hop_cookies(cookiejar, w.set_cookie, f.request)
                /\ UNCHANGED resps
           ELSE IF redirect /\ inc.raise = ""
           THEN \* PoolManager.urlopen: follow the redirect
                /\ queues' = drained.queues
                /\ conns' = drained.conns
                /\ frame' = [frame EXCEPT ![c].pc = "send", ![c].conn = 0,
                                ![c].retries = inc.retry,
                                ![c].headers = StripHeaders(f, origin, w.location),
                                ![c].url = w.location,
                                ![c].method = IF w.status = 303 THEN "GET" ELSE @,
                                ![c].redirects = @ + 1,
                                ![c].crossed = @ \/ origin # w.location]
                /\ cookiejar' = hop_cookies(cookiejar, w.set_cookie, f.request)
                /\ UNCHANGED resps
           ELSE \* the response is returned to _real_handle
                /\ resps' = Store(resps, f.conn, fin.res)
                /\ cookiejar' = fin.jar
                /\ frame' = [frame EXCEPT ![c] = fin.frame]
                /\ UNCHANGED <<queues, conns>>
        /\ UNCHANGED <<pools, created, lastread, got, nreq, ncalls, session,
                   params, runtime, debug, others, adapter>>

\* the caller takes the result of _real_handle
Done(c) ==
    /\ frame[c].pc \in {"returned", "raised"}
    /\ frame' = [frame EXCEPT ![c] = IdleFrame]
    /\ UNCHANGED <<pools, created, queues, conns, resps, cookiejar, lastread,
                   got, nreq, ncalls, session,
                   params, runtime, debug, others, adapter>>

(***************************************************************************)
(* Urllib3ResponseAdapter.read and close, on a response a caller holds     *)
(***************************************************************************)
\* read() reaches the end of the body, or finds the body already closed
Read(k) ==
    LET r == ReadToEnd(queues, conns, resps[k])
    IN  /\ k \in DOMAIN resps
        /\ frame[resps[k].owner].pc = "idle"
        /\ queues' = r.queues
        /\ conns' = r.conns
        /\ resps' = Store(resps, k, r.res)
        /\ lastread' = NoRead
        /\ UNCHANGED <<pools, created, cookiejar, frame, got, nreq, ncalls, session,
                   params, runtime, debug, others, adapter>>

\* read() fails on ev, the urllib3 response raising e
ReadFault(k, ev, e) ==
    LET r == ReadFailing(queues, conns, resps[k])
    IN  /\ k \in DOMAIN resps
        /\ frame[resps[k].owner].pc = "idle"
        /\ ~resps[k].fp_closed
        /\ e \in read_faults(ev)
        /\ queues' = r.queues
        /\ conns' = r.conns
        /\ resps' = Store(resps, k, r.res)
        /\ lastread' = [event |-> ev, fault |-> e, err |-> ReadError(e)]
        /\ UNCHANGED <<pools, created, cookiejar, frame, got, nreq, ncalls, session,
                   params, runtime, debug, others, adapter>>

\* close()
Close(k) ==
    LET r == CloseResponse(conns, resps[k])
    IN  /\ k \in DOMAIN resps
        /\ frame[resps[k].owner].pc = "idle"
        /\ conns' = r.conns
        /\ resps' = Store(resps, k, r.res)
        /\ lastread' = NoRead
        /\ UNCHANGED <<pools, created, queues, cookiejar, frame, got, nreq,
                       ncalls, session,
                   params, runtime, debug, others, adapter>>

Next ==
    \/ \E url \in URLs : RealHandle("c1", SessionRequest(session, url))
    \/ CreatePm("c1")
    \/ Setdefault("c1")
    \/ \E e \in SetupFaults : SetupFault("c1", e)
    \/ Send("c1")
    \/ \E ev \in CallEvents :
         \E e \in CallFaults \cup {new_conn(SocketError(ev))} :
            RecvFault("c1", ev, e)
    \/ \E w \in WireResponses : RecvResponse("c1", w)
    \/ Done("c1")
    \/ \E k \in DOMAIN resps : Read(k)
    \/ \E k \in DOMAIN resps : \E ev \in ReadEvents : \E e \in ReadFaults :
         ReadFault(k, ev, e)
    \/ \E k \in DOMAIN resps : Close(k)

\* one caller issuing requests one after the other, reading and closing the
\* responses it holds between them
Spec == Init /\ [][Next]_vars

(***************************************************************************)
(* Urllib3RH.can_handle, and the header set of _real_handle as a function  *)
(* of the request, the configuration and the runtime                       *)
(***************************************************************************)
\* Urllib3RH._is_force_disabled
is_force_disabled == "no-urllib3" \in params.compat_opts

\* the results super().can_handle(request, **req_kwargs) may give
SuperCanHandle(request, kwargs) == BOOLEAN

\* can_handle that leaves the decision to the base check
can_handle_base_only(request, kwargs, base) ==
    [answer |-> base, super_called |-> TRUE, debug |-> {}]

\* Urllib3RH.can_handle: what it returns, whether it called the base check,
\* what it wrote with write_debug
can_handle(request, kwargs, base) ==
    IF is_force_disabled
    THEN [answer |-> FALSE, super_called |-> FALSE,
          debug |-> {"Not using urllib3 backend as no-urllib3 compat opt is set."}]
    ELSE [answer |-> base, super_called |-> TRUE, debug |-> {}]

\* the keyword arguments of can_handle
ReqKwargs == {"", "kw"}

\* the requests callers may build
HandlerRequests ==
    { Request(url, proxy, "GET", headers, unredirected, compression) :
        url \in {[scheme |-> "http", host |-> "a"], [scheme |-> "https", host |-> "a"]},
        proxy \in {NoProxy, [scheme |-> "socks5", addr |-> "s"]},
        headers \in {EmptyHeaders, Header("Accept-Encoding", "request"),
                     Header("accept-encoding", "request"),
                     Header("user-agent", "request")},
        unredirected \in {EmptyHeaders, Header("Accept-Encoding", "unredirected")},
        compression \in BOOLEAN }

CanHandle(c, request, kwargs, base) ==
    LET r == can_handle(request, kwargs, base)
    IN  /\ frame[c].pc = "idle"
        /\ base \in SuperCanHandle(request, kwargs)
        /\ debug' = debug \cup r.debug
        /\ frame' = [frame EXCEPT ![c] =
                [IdleFrame EXCEPT !.pc = "done", !.op = "can_handle",
                    !.request = request, !.kwargs = kwargs,
                    !.answer = r.answer, !.super_called = r.super_called]]
        /\ UNCHANGED <<pools, created, queues, conns, resps, cookiejar, lastread,
                       got, nreq, ncalls, session, params, runtime,
                       others, adapter>>

\* lines 178-185 of _real_handle for request
PrepareHeaders(c, request) ==
    /\ frame[c].pc = "idle"
    /\ frame' = [frame EXCEPT ![c] =
            [IdleFrame EXCEPT !.pc = "done", !.op = "headers",
                !.request = request, !.headers = BuildHeaders(request),
                !.err = IF del_raises(request) THEN Raw("KeyError")
                        ELSE NoError]]
    /\ UNCHANGED <<pools, created, queues, conns, resps, cookiejar, lastread,
                   got, nreq, ncalls, session, params, runtime, debug, others, adapter>>

\* the caller has its answer
Return(c) ==
    /\ frame[c].pc = "done"
    /\ frame' = [frame EXCEPT ![c] = IdleFrame]
    /\ UNCHANGED <<pools, created, queues, conns, resps, cookiejar, lastread,
                   got, nreq, ncalls, session, params, runtime, debug, others, adapter>>

InitHandler ==
    /\ pools = EmptyMap
    /\ created = EmptyMap
    /\ queues = EmptyMap
    /\ conns = EmptyMap
    /\ resps = EmptyMap
    /\ cookiejar = {}
    /\ frame = [c \in Callers |-> IdleFrame]
    /\ lastread = NoRead
    /\ got = {}
    /\ nreq = [c \in Callers |-> 0]
    /\ ncalls = 0
    /\ session \in {ses \in Sessions : ses.proxy = NoProxy /\ ses.method = "GET"
                                      /\ ses.unredirected_headers = EmptyHeaders}
    /\ params \in ParamSets
    /\ runtime \in Runtimes
    /\ debug = {}
    /\ others = [i \in OtherInstances |-> EmptyMap]
    /\ adapter = NoAdapter

NextHandler ==
    \/ \E request \in HandlerRequests : \E kwargs \in ReqKwargs : \E base \in BOOLEAN :
         CanHandle("c1", request, kwargs, base)
    \/ \E request \in HandlerRequests : PrepareHeaders("c1", request)
    \/ Return("c1")

\* one caller asking can_handle and having the headers of requests built,
\* under every configuration and runtime
SpecHandler == InitHandler /\ [][NextHandler]_vars

(***************************************************************************)
(* Concurrent _real_handle calls on one handler                            *)
(***************************************************************************)
\* what the two callers ask for and what the network answers them
ConcURLs == {u \in URLs : u.scheme = "http"}
ConcResponses ==
    {w \in WireResponses : /\ w.status \in {200, 302, 503}
                           /\ ~w.set_cookie /\ ~w.retry_after
                           /\ w.location \in ConcURLs \cup {NoURL}}
ConcEvents == {Event("connect", "oserror"), Event("response", "timeout")}

InitConc ==
    /\ pools = EmptyMap
    /\ created = EmptyMap
    /\ queues = EmptyMap
    /\ conns = EmptyMap
    /\ resps = EmptyMap
    /\ cookiejar = {}
    /\ frame = [c \in Callers |-> IdleFrame]
    /\ lastread = NoRead
    /\ got = {}
    /\ nreq = [c \in Callers |-> 0]
    /\ ncalls = 0
    /\ session \in {ses \in Sessions : /\ ses.proxy \in {NoProxy, [scheme |-> "", addr |-> "p"]}
                                      /\ ses.method = "GET"
                                      /\ ses.unredirected_headers = EmptyHeaders}
    /\ params = DefaultParams
    /\ runtime = DefaultRuntime
    /\ debug = {}
    /\ others = [i \in OtherInstances |-> EmptyMap]
    /\ adapter = NoAdapter

NextConc ==
    \/ \E c \in Callers :
        \/ \E url \in ConcURLs : RealHandle(c, SessionRequest(session, url))
        \/ CreatePm(c)
        \/ Setdefault(c)
        \/ Send(c)
        \/ \E ev \in ConcEvents : \E e \in CallFaults : RecvFault(c, ev, e)
        \/ \E w \in ConcResponses : RecvResponse(c, w)
        \/ Done(c)
    \/ \E k \in DOMAIN resps : Read(k)
    \/ \E k \in DOMAIN resps : \E e \in ReadFaults :
         ReadFault(k, Event("body", "timeout"), e)
    \/ \E k \in DOMAIN resps : Close(k)

\* two callers in _real_handle at once, interleaved at every step, reading
\* and closing their responses while the other is in flight
SpecConc == InitConc /\ [][NextConc]_vars

\* how many pool managers the instances together build for one identity
MaxManagers == 3

\* urllib3 HTTPResponse.geturl(): the redirect_location of the last entry of
\* retries.history (None for an entry that is a retry and no redirect), and
\* the request_url when the history is empty
geturl(res) ==
    IF Len(res.history) > 0 THEN res.history[Len(res.history)]
    ELSE res.request_url

\* compat_urllib_parse_urlparse(url): the scheme is lowered (str.lower() on
\* the scheme texts of the model), the rest kept; hostname is the field
\* host, "" for None
urlparse(url) == [url EXCEPT !.scheme = IF @ = "HTTP" THEN "http" ELSE @]
\* ParseResult.geturl(): urlunparse writes no "?" for an empty query
unparse(url_parsed) ==
    [url_parsed EXCEPT !.query = IF @ = "empty" THEN "none" ELSE @]

\* __init__ with the scheme of the reported url kept in the rebuilt one
adapter_url_keeping_scheme(res) ==
    LET url == geturl(res)
        url_parsed == urlparse(url)
    IN  IF url = UrlNone THEN url
        ELSE IF url_parsed.host = ""
        THEN unparse([url_parsed EXCEPT !.host = res.connection.host,
                                        !.port = res.connection.port])
        ELSE unparse(url_parsed)

\* Urllib3ResponseAdapter.__init__: self._url
adapter_url(res) ==
    LET url == geturl(res)
        url_parsed == urlparse(url)
    IN  IF url = UrlNone THEN url
        ELSE IF url_parsed.host = ""
        THEN unparse([url_parsed EXCEPT !.host = res.connection.host,
                                        !.port = res.connection.port,
                                        !.scheme = "https"])
        ELSE unparse(url_parsed)

\* the responses urlopen returns: request_url is request.url; history is
\* retries.history, empty, or one redirect (each form of Location), or one
\* retry on Retry-After, or a redirect and such a retry after it; connection
\* is the connection of the pool that served the response
AdapterInputs ==
    [request_url : {UrlText(scheme, "a", "", "/x", "none") : scheme \in Schemes},
     history :
        {<<>>, <<UrlNone>>, <<UrlText("", "", "", "/x", "none"), UrlNone>>}
        \cup {<<UrlText(scheme, host, port, "/x", query)>> :
                 scheme \in {"", "http", "HTTP", "https"}, host \in {"", "b"},
                 port \in {"", "8080"}, query \in {"none", "empty"}},
     connection : {[host |-> host, port |-> port] :
                      host \in {"a", "b", "p"}, port \in {"80", "443"}}]

\* Urllib3ResponseAdapter(urllib3_res) for a response that needed no redirect
AdaptDirect(res) ==
    /\ res.history = <<>>
    /\ adapter' = [res |-> res, url |-> adapter_url(res)]
    /\ UNCHANGED <<pools, created, queues, conns, resps, cookiejar, frame,
                   lastread, got, nreq, ncalls, session, params, runtime,
                   debug, others>>

\* Urllib3ResponseAdapter(urllib3_res) for a response with a history
AdaptAfterHistory(res) ==
    /\ res.history # <<>>
    /\ adapter' = [res |-> res, url |-> adapter_url(res)]
    /\ UNCHANGED <<pools, created, queues, conns, resps, cookiejar, frame,
                   lastread, got, nreq, ncalls, session, params, runtime,
                   debug, others>>

InitAdapter ==
    /\ pools = EmptyMap
    /\ created = EmptyMap
    /\ queues = EmptyMap
    /\ conns = EmptyMap
    /\ resps = EmptyMap
    /\ cookiejar = {}
    /\ frame = [c \in Callers |-> IdleFrame]
    /\ lastread = NoRead
    /\ got = {}
    /\ nreq = [c \in Callers |-> 0]
    /\ ncalls = 0
    /\ session \in {ses \in Sessions : ses.proxy = NoProxy /\ ses.method = "GET"
                                      /\ ses.unredirected_headers = EmptyHeaders}
    /\ params = DefaultParams
    /\ runtime = DefaultRuntime
    /\ debug = {}
    /\ others = [i \in OtherInstances |-> EmptyMap]
    /\ adapter = NoAdapter

NextAdapter ==
    \/ \E res \in AdapterInputs : AdaptDirect(res)
    \/ \E res \in AdapterInputs : AdaptAfterHistory(res)

\* adapters built one after the other for the responses urlopen can return
SpecAdapter == InitAdapter /\ [][NextAdapter]_vars

InitRedirect ==
    /\ pools = EmptyMap
    /\ created = EmptyMap
    /\ queues = EmptyMap
    /\ conns = EmptyMap
    /\ resps = EmptyMap
    /\ cookiejar \in SUBSET {"a"}
    /\ frame = [c \in Callers |-> IdleFrame]
    /\ lastread = NoRead
    /\ got = {}
    /\ nreq = [c \in Callers |-> 0]
    /\ ncalls = 0
    /\ session \in {ses \in Sessions : ses.proxy = NoProxy /\ ses.method = "GET"
                                      /\ ses.unredirected_headers = EmptyHeaders}
    /\ params \in {[compat_opts |-> {}, http_headers |-> h] :
                      h \in {EmptyHeaders, Header("Authorization", "session")}}
    /\ runtime = DefaultRuntime
    /\ debug = {}
    /\ others = [i \in OtherInstances |-> EmptyMap]
    /\ adapter = NoAdapter

NextRedirect ==
    \/ \E url \in ConcURLs :
         \E headers \in {EmptyHeaders, Header("Authorization", "request")} :
           \E unredirected \in {EmptyHeaders, Header("X-Token", "unredirected"),
                                 Header("authorization", "unredirected")} :
             RealHandle("c1", Request(url, NoProxy, "GET", headers,
                                      unredirected, TRUE))
    \/ CreatePm("c1")
    \/ Setdefault("c1")
    \/ Send("c1")
    \/ \E w \in {x \in WireResponses : /\ x.status \in {200, 302}
                                        /\ ~x.set_cookie
                                        /\ x.location \in ConcURLs \cup {NoURL}} :
         RecvResponse("c1", w)
    \/ Done("c1")
    \/ \E k \in DOMAIN resps : Read(k)

\* one caller whose requests carry an Authorization among the regular
\* headers or a name to strip among the unredirected ones, and are
\* redirected within a host and across hosts
SpecRedirect == InitRedirect /\ [][NextRedirect]_vars

NextProxy ==
    \/ \E url \in {u \in URLs : u.host = "a"} :
         \E proxy \in {[scheme |-> "", addr |-> "p"],
                        [scheme |-> "http", addr |-> "p"], LocalProxy} :
           RealHandle("c1", Request(url, proxy, "GET", EmptyHeaders,
                                    EmptyHeaders, TRUE))
    \/ CreatePm("c1")
    \/ Setdefault("c1")
    \/ Send("c1")
    \/ \E w \in {x \in WireResponses : x.status = 200 /\ ~x.set_cookie} :
         RecvResponse("c1", w)
    \/ Done("c1")
    \/ \E k \in DOMAIN resps : Read(k)

\* one caller whose requests name their proxy with and without a scheme,
\* for http and https urls
SpecProxy == InitAdapter /\ [][NextProxy]_vars

\* get_pool(proxy) on another instance, from call to return; the manager
\* _create_pm builds is a new object whichever instance builds it
GetPoolOther(i, proxy) ==
    LET key == PoolKey(proxy)
        n == Created(key) + 1
        reg == setdefault(self_pools(i, pools, others), key, create_pm(proxy, n))
    IN  /\ ~create_pm_raises(proxy)
        /\ n <= MaxManagers
        /\ created' = MapSet(created, key, n)
        /\ others' = [others EXCEPT ![i] = reg]
        /\ UNCHANGED <<pools, queues, conns, resps, cookiejar, frame, lastread,
                       got, nreq, ncalls, session, params, runtime, debug,
                       adapter>>

InstProxies == {NoProxy, [scheme |-> "socks5", addr |-> "s"]}

InitInst ==
    /\ pools = EmptyMap
    /\ created = EmptyMap
    /\ queues = EmptyMap
    /\ conns = EmptyMap
    /\ resps = EmptyMap
    /\ cookiejar = {}
    /\ frame = [c \in Callers |-> IdleFrame]
    /\ lastread = NoRead
    /\ got = {}
    /\ nreq = [c \in Callers |-> 0]
    /\ ncalls = 0
    /\ session \in {ses \in Sessions : /\ ses.proxy \in InstProxies
                                      /\ ses.method = "GET"
                                      /\ ses.unredirected_headers = EmptyHeaders}
    /\ params = DefaultParams
    /\ runtime = DefaultRuntime
    /\ debug = {}
    /\ others = [i \in OtherInstances |-> EmptyMap]
    /\ adapter = NoAdapter

NextInst ==
    \/ \E url \in ConcURLs : RealHandle("c1", SessionRequest(session, url))
    \/ CreatePm("c1")
    \/ Setdefault("c1")
    \/ Send("c1")
    \/ \E w \in {x \in WireResponses : x.status = 200 /\ ~x.set_cookie} :
         RecvResponse("c1", w)
    \/ Done("c1")
    \/ \E k \in DOMAIN resps : Read(k)
    \/ \E i \in OtherInstances : \E proxy \in InstProxies : GetPoolOther(i, proxy)

\* one instance serving _real_handle, and get_pool within it, while two
\* other instances serve get_pool
SpecInst == InitInst /\ [][NextInst]_vars

(***************************************************************************)
(* Properties                                                              *)
(***************************************************************************)
\* the frame of the caller of Spec
F == frame["c1"]
\* the names of the unredirected headers of the request being handled
Unredirected == DOMAIN F.request.unredirected_headers
InTaxonomy(err) == err.typed /\ err.kind \in TypedKinds

\* C1: the connection that carried a response for which _real_handle raised
\* the HTTP-status error is never in an idle queue and never in use by a
\* request while the response holds it, and a read-to-end, release or close
\* of the response leaves it either held by the response or closed and
\* dropped, never idle.
C1_ErrorConnectionNeverIdle ==
    /\ [](\A k \in DOMAIN resps : resps[k].override =>
            /\ k \notin IdleConns
            /\ \A c \in Callers : frame[c].conn # k)
    /\ [][\A k \in DOMAIN resps : resps[k].override =>
            /\ k \notin IdleConns'
            /\ k \in DOMAIN conns' =>
                  /\ k \in DOMAIN resps' /\ resps'[k].override
                  /\ \A c \in Callers : frame'[c].conn # k]_vars

\* a later request is on a physical call to the pool whose connection carried
\* an error response that was closed since
C1_Witness ==
    \E k \in DOMAIN resps :
        /\ resps[k].override /\ resps[k].fp_closed
        /\ F.pc = "wait"
        /\ conns[F.conn].pm = conns[k].pm
        /\ conns[F.conn].origin = conns[k].origin

\* C2: any two get_pool calls with the same proxy identity returned the
\* identical pool manager.
C2_SameIdentitySamePool ==
    \A x, y \in got : x[1] = y[1] => x[2] = y[2]

\* two get_pool calls for one identity have returned; each built a manager
C2_Witness ==
    /\ \A c \in Callers : frame[c].pc = "idle"
    /\ \E key \in DOMAIN created : created[key] >= 2 /\ key \in DOMAIN pools

\* C3: while a proxy identity is not yet in the registry, the callers of
\* get_pool have created at most one pool manager for it.
C3_SingleCreation ==
    \A key \in DOMAIN created : key \notin DOMAIN pools => created[key] <= 1

\* C4: once a physical call of a _real_handle call has ended with a fault,
\* no further physical call is issued and the request has failed with an
\* error of the typed taxonomy.
C4_FaultFailsTyped ==
    F.faulted => F.pc = "raised" /\ InTaxonomy(F.err)

\* C4, the part about physical calls: once a physical call has ended with a
\* fault the request has failed, so that no further call is issued.
C4_NoCallAfterFault ==
    F.faulted => F.pc = "raised" /\ F.err # NoError

\* the second physical call of a request, after a redirect, ended with a fault
C4_Witness ==
    F.faulted /\ F.pc = "raised" /\ F.calls = 2 /\ F.redirects = 1

\* C5: within one _real_handle call the number of physical calls issued
\* never exceeds, and once the latest call is issued equals, one plus the
\* number of redirects followed.
C5_CallsAreRedirectsPlusOne ==
    /\ F.calls <= 1 + F.redirects
    /\ F.pc \in {"wait", "returned", "raised"} /\ F.calls > 0 =>
          F.calls = 1 + F.redirects

\* C6: every fault raised during dispatch in _real_handle or during read
\* reaches the caller as an error of the typed taxonomy.
C6_EveryFaultTyped ==
    /\ F.pc = "raised" => InTaxonomy(F.err)
    /\ lastread.fault # NoFault => InTaxonomy(lastread.err)

\* C7: when the dispatch ended with a final status, _real_handle returns the
\* response if and only if the status is in 200-299, and raises the
\* HTTP-status error carrying the response otherwise.
C7_ReturnsIffSuccess ==
    F.status # 0 =>
        /\ F.pc \in {"returned", "raised"}
        /\ F.res \in DOMAIN resps
        /\ F.pc = "returned" <=> (200 <= F.status /\ F.status <= 299)
        /\ F.pc = "raised" => F.err = Typed("HTTPError") /\ resps[F.res].override
        /\ F.pc = "returned" => F.err = NoError /\ ~resps[F.res].override

\* the final status 300 made _real_handle raise the HTTP-status error
C7_Witness ==
    F.pc = "raised" /\ F.status = 300 /\ F.err = Typed("HTTPError")

C9_CookieRoundTrip ==
    /\ F.op = "_real_handle" =>
          ("Cookie" \in Unredirected <=> F.request.url.host \in F.jar0)
    /\ F.pc = "returned" /\ F.redirects = 0 /\ F.set_cookie =>
          F.request.url.host \in cookiejar

C12_TimeoutByPhase ==
    /\ F.pc = "raised" /\ F.event.kind = "timeout" =>
          F.err = Typed(IF F.event.phase = "connect" THEN "ConnectTimeoutError"
                        ELSE "ReadTimeoutError")
    /\ lastread.event.kind = "timeout" => lastread.err = Typed("ReadTimeoutError")

\* C12: a timeout of the connect surfaces as ConnectTimeoutError; a timeout
\* while the response is awaited or read, or in the TLS handshake of a
\* connection that is not tunnelled through an HTTP proxy, surfaces as
\* ReadTimeoutError; a timeout while the request is sent surfaces as
\* TransportError, or as ProxyError in a pool of an HTTP proxy, and a timeout
\* while the tunnel through an HTTP proxy is set up as ProxyError; no timeout
\* surfaces as the timeout kind of the other side of the connect.
C12_TimeoutByPhaseAndRoute ==
    /\ F.pc = "raised" /\ F.event.kind = "timeout" =>
          LET proxied == F.pm.variant = "ProxyManager"
              tunnelled == proxied /\ F.url.scheme = "https"
          IN  F.err =
                CASE F.event.phase = "connect" -> Typed("ConnectTimeoutError")
                  [] F.event.phase = "response" -> Typed("ReadTimeoutError")
                  [] F.event.phase = "tls" ->
                        IF tunnelled THEN Typed("ProxyError")
                        ELSE Typed("ReadTimeoutError")
                  [] F.event.phase = "tunnel" -> Typed("ProxyError")
                  [] F.event.phase = "send" ->
                        IF proxied THEN Typed("ProxyError")
                        ELSE Typed("TransportError")
    /\ lastread.event.kind = "timeout" => lastread.err = Typed("ReadTimeoutError")

\* the request timed out while it was sent on a connection without proxy and
\* failed with TransportError
C12_Witness ==
    /\ F.pc = "raised" /\ F.event = Event("send", "timeout")
    /\ F.pm.variant = "PoolManager" /\ F.err = Typed("TransportError")

\* C13: a body that ends before its declared length surfaces from read() as
\* IncompleteRead, in whichever form urllib3 reports it.
C13_TruncatedIsIncompleteRead ==
    lastread.event.kind = "truncated" => lastread.err = Typed("IncompleteRead")

\* C14: the HTTP-status error is marked as a redirect loop exactly when the
\* final response is a redirect with a Location that was not followed, the
\* hops being used up; with a final status that is no redirect status it is
\* not marked.
C14_RedirectLoopIffHopsExhausted ==
    F.pc = "raised" /\ F.err = Typed("HTTPError") =>
        /\ F.redirect_loop <=> F.unfollowed
        /\ F.status \notin REDIRECT_STATUSES => ~F.redirect_loop

\* C15: a request proxy without a scheme is passed to get_pool with the
\* scheme of the request's url, and a proxy with a scheme is passed as it is.
C15_SchemelessProxyTakesUrlScheme ==
    F.op = "_real_handle" /\ F.request.proxy # NoProxy =>
        F.proxy = IF F.request.proxy.scheme = ""
                  THEN [F.request.proxy EXCEPT !.scheme = F.request.url.scheme]
                  ELSE F.request.proxy

\* C16: with the no-urllib3 compatibility option set, can_handle answers
\* false for every request and every keyword argument, and the base check is
\* not called.
C16_DisabledNeverHandles ==
    F.op = "can_handle" /\ "no-urllib3" \in params.compat_opts =>
        ~F.answer /\ ~F.super_called

C16_Witness ==
    /\ F.op = "can_handle"
    /\ params.compat_opts = {"no-urllib3", "no-keep-subs"}
    /\ F.request.proxy # NoProxy
    /\ F.kwargs = "kw"
    /\ ~F.answer
    /\ debug # {}

\* C17: with compression on, a request whose headers (defaults, session,
\* request, unredirected) name no Accept-Encoding is sent with gzip and
\* deflate, and br after them only if the runtime decodes it; one that names
\* an Accept-Encoding is sent with the value of the source of highest
\* precedence naming it.
C17_AcceptEncoding ==
    LET ae(h) == {h[n] : n \in {m \in DOMAIN h : Lower(m) = "accept-encoding"}}
        explicit == IF ae(F.request.unredirected_headers) # {}
                    THEN ae(F.request.unredirected_headers)
                    ELSE IF ae(F.request.headers) # {} THEN ae(F.request.headers)
                    ELSE ae(params.http_headers)
        supported == {"gzip, deflate"} \cup
                     (IF DecodesBrotli(runtime) THEN {"gzip, deflate, br"} ELSE {})
    IN  F.op = "headers" /\ F.request.compression =>
            IF explicit = {}
            THEN \E v \in supported : ae(F.headers) = {v}
            ELSE ae(F.headers) = explicit

C17_Witness ==
    /\ F.op = "headers"
    /\ F.request.compression
    /\ F.request.headers = EmptyHeaders
    /\ F.request.unredirected_headers = EmptyHeaders
    /\ params.http_headers = EmptyHeaders
    /\ runtime = [brotli |-> "brotlicffi", version |-> Version_1_26_9]
    /\ F.headers["Accept-Encoding"] = "gzip, deflate, br"

\* C18: through a SOCKS pool, a timeout of the SOCKS connect is raised as
\* ConnectTimeoutError, a SOCKS protocol failure as ProxyError and any other
\* OS failure of the connect as TransportError.
C18_SocksConnectFailures ==
    F.pc = "raised" /\ F.pm.variant = "SocksProxyManager" /\ F.event.phase = "connect" =>
        F.err = Typed(CASE F.event.kind = "timeout" -> "ConnectTimeoutError"
                        [] F.event.kind = "socks" -> "ProxyError"
                        [] OTHER -> "TransportError")

\* C18, what holds: only the timeout of the SOCKS connect is raised as the
\* kind the claim names; the two other failures leave _real_handle as the
\* TypeError of the failed construction in _new_conn.
C18_SocksConnectOutcomes ==
    F.pc = "raised" /\ F.pm.variant = "SocksProxyManager" /\ F.event.phase = "connect" =>
        F.err = IF F.event.kind = "timeout" THEN Typed("ConnectTimeoutError")
                ELSE Raw("TypeError")

C18_Witness ==
    /\ F.pc = "raised"
    /\ F.pm.variant = "SocksProxyManager"
    /\ F.event = Event("connect", "socks")
    /\ F.err = Raw("TypeError")

\* C19: a failure of the proxy to establish or tunnel the connection (the
\* connect to an HTTP proxy, its CONNECT tunnel, the SOCKS negotiation) is
\* raised as ProxyError, whatever the fault below it.
C19_ProxyFailureIsProxyError ==
    /\ F.pc = "raised"
    /\ \/ F.pm.variant = "ProxyManager" /\ F.event.phase \in {"connect", "tunnel"}
       \/ F.pm.variant = "SocksProxyManager" /\ F.event = Event("connect", "socks")
    => F.err = Typed("ProxyError")

\* C19, what holds: ProxyError for the failures at an HTTP proxy other than
\* the timeout of the connect to it, which is raised as ConnectTimeoutError;
\* the TypeError of _new_conn for a failed SOCKS negotiation.
C19_ProxyFailureOutcomes ==
    /\ F.pc = "raised" /\ F.pm.variant = "ProxyManager"
            /\ F.event.phase \in {"connect", "tunnel"} =>
         F.err = IF F.event = Event("connect", "timeout")
                 THEN Typed("ConnectTimeoutError")
                 ELSE Typed("ProxyError")
    /\ F.pc = "raised" /\ F.pm.variant = "SocksProxyManager"
            /\ F.event = Event("connect", "socks") =>
         F.err = Raw("TypeError")

C19_Witness ==
    /\ F.pc = "raised"
    /\ F.pm.variant = "ProxyManager"
    /\ F.event = Event("tunnel", "timeout")
    /\ F.redirects = 1
    /\ F.err = Typed("ProxyError")

\* C20: the request given to _real_handle has, during the call and after it,
\* on success and on failure, the headers, unredirected headers, url and
\* proxy it had when the call began.
C20_RequestNotMutated ==
    F.op = "_real_handle" => F.request = F.request0

\* C21: the steps of one _real_handle call begin in the order header-merge,
\* cookie-injection, dispatch, response-adapt, cookie-harvest, each after the
\* one before it has finished.
C21_StepOrder ==
    LET order == <<"header-merge", "cookie-injection", "dispatch",
                   "response-adapt", "cookie-harvest">>
    IN  F.op = "_real_handle" =>
            /\ Len(F.steps) <= Len(order)
            /\ \A i \in 1..Len(F.steps) : F.steps[i] = order[i]

\* C21, what holds: the steps are strictly sequential in the order
\* cookie-injection (line 171), header-merge (lines 178-185), dispatch,
\* response-adapt, cookie-harvest.
C21_StepOrderOfCode ==
    LET order == <<"cookie-injection", "header-merge", "dispatch",
                   "response-adapt", "cookie-harvest">>
    IN  F.op = "_real_handle" =>
            /\ Len(F.steps) <= Len(order)
            /\ \A i \in 1..Len(F.steps) : F.steps[i] = order[i]

C21_Witness ==
    /\ F.pc = "returned"
    /\ F.redirects = 1
    /\ Len(F.steps) = 5

\* C22: no step removes an entry of the pool registry or maps a registered
\* proxy identity to another pool manager.
C22_RegistryOnlyGrows ==
    [][\A key \in DOMAIN pools : key \in DOMAIN pools' /\ pools'[key] = pools[key]]_vars

\* two identities are registered, and one of them was asked for again after
\* its first manager was registered
C22_Witness ==
    /\ Cardinality(DOMAIN pools) >= 2
    /\ \E key \in DOMAIN pools : created[key] >= 2 /\ pools[key].id = <<key, 1>>

\* C23: in a sequential series of get_pool calls (one caller, each call
\* finished before the next begins) a pool manager is constructed only by the
\* first call for each proxy identity.
C23_ConstructedOncePerIdentity ==
    frame["c2"].pc = "idle" /\ nreq["c2"] = 0 =>
        \A key \in DOMAIN created : created[key] <= 1

\* C24: over any sequence of read and close calls a response disposes of its
\* connection once, by releasing it to the pool or by closing it: a
\* connection it hands to the idle set is one it has not closed; close leaves
\* the response without a usable connection; a close of a response already
\* closed changes no connection.
C24_ReleasedOrClosedOnce ==
    /\ [][\A k \in DOMAIN resps : k \in IdleConns' => conns'[k].sock]_vars
    /\ [][\A k \in DOMAIN resps :
            Close(k) => k \notin DOMAIN resps' \/ ~conns'[k].sock]_vars
    /\ [][\A k \in DOMAIN resps :
            Close(k) /\ resps[k].fp_closed => UNCHANGED <<conns, queues, resps>>]_vars

\* C24, what holds: a response releases its connection at most once and
\* never touches it afterwards (no response holds a handle to an idle
\* connection); close leaves the response without a usable connection; a
\* close of a response already closed changes no connection.  A failing
\* read, and a read after close, hand the closed connection to the pool.
C24_DisposedOnce ==
    /\ [](\A k \in DOMAIN resps : k \notin IdleConns)
    /\ [][\A k \in DOMAIN resps :
            Close(k) => k \notin DOMAIN resps' \/ ~conns'[k].sock]_vars
    /\ [][\A k \in DOMAIN resps :
            Close(k) /\ resps[k].fp_closed => UNCHANGED <<conns, queues, resps>>]_vars

\* a closed response of a successful request still holds its closed
\* connection while its caller is idle
C24_Witness ==
    /\ F.pc = "idle"
    /\ \E k \in DOMAIN resps :
         resps[k].fp_closed /\ ~resps[k].override /\ ~conns[k].sock

\* C25: with _real_handle calls interleaved, the connection a request has
\* borrowed (in dispatch, or held by its response, not yet released) is in
\* use by no other request and is not idle, and a request only takes a
\* connection that is new or was idle.
C25_BorrowedNotShared ==
    /\ [](\A c \in Callers : frame[c].conn # 0 =>
            /\ frame[c].conn \notin IdleConns
            /\ frame[c].conn \notin DOMAIN resps
            /\ \A d \in Callers \ {c} : frame[d].conn # frame[c].conn)
    /\ [](\A k \in DOMAIN resps : k \notin IdleConns)
    /\ [][\A c \in Callers :
            frame'[c].conn # 0 /\ frame'[c].conn # frame[c].conn =>
                \/ frame'[c].conn \in IdleConns
                \/ frame'[c].conn \notin DOMAIN conns]_vars

\* both callers wait for an answer, each on its own connection of one pool
C25_Witness ==
    /\ frame["c1"].pc = "wait" /\ frame["c2"].pc = "wait"
    /\ conns[frame["c1"].conn].pm = conns[frame["c2"].conn].pm
    /\ conns[frame["c1"].conn].origin = conns[frame["c2"].conn].origin
    /\ frame["c1"].conn # frame["c2"].conn

\* C26: every physical call of a _real_handle call carries a Cookie header
\* exactly when the shared store holds a cookie for the host that call goes
\* to, and a cookie set by a redirect response that is followed is in the
\* store when the next call is issued.
C26_CookiesPerHop ==
    /\ [](F.pc = "wait" => ("Cookie" \in DOMAIN F.headers <=> F.url.host \in cookiejar))
    /\ [][\A w \in WireResponses :
            /\ RecvResponse("c1", w)
            /\ w.set_cookie
            /\ frame'["c1"].redirects > F.redirects
            => F.url.host \in cookiejar']_vars

\* C27: the cookies harvested from the response _real_handle returns are
\* stored for the host of the response's final url: after a redirect to
\* another host the store gains a cookie for that host and none for the host
\* of the request.
C27_HarvestKeyedByFinalUrl ==
    F.pc = "returned" /\ F.harvested /\ F.set_cookie =>
        cookiejar = F.jar0 \cup {F.url.host}

\* C28: for every header name some source defines, compared without regard
\* to case, the headers of the first physical call hold the value of the
\* source of highest precedence defining it, in the order defaults < session
\* headers < request headers < unredirected headers.
C28_HeaderPrecedence ==
    LET val(h, n) == {h[m] : m \in {x \in DOMAIN h : Lower(x) = n}}
        sources == <<StdHeaders, params.http_headers, F.request.headers,
                     F.request.unredirected_headers>>
        names == UNION {{Lower(m) : m \in DOMAIN sources[i]} : i \in 1..4}
        top(n) == CHOOSE i \in 1..4 :
                      /\ val(sources[i], n) # {}
                      /\ \A j \in (i + 1)..4 : val(sources[j], n) = {}
    IN  F.op = "headers" =>
            \A n \in names : val(F.headers, n) = val(sources[top(n)], n)

\* C28, what holds: the same, except that with the compression flag off no
\* Accept-Encoding is sent, whatever source defines one.
C28_HeaderPrecedenceButEncoding ==
    LET val(h, n) == {h[m] : m \in {x \in DOMAIN h : Lower(x) = n}}
        sources == <<StdHeaders, params.http_headers, F.request.headers,
                     F.request.unredirected_headers>>
        names == UNION {{Lower(m) : m \in DOMAIN sources[i]} : i \in 1..4}
        top(n) == CHOOSE i \in 1..4 :
                      /\ val(sources[i], n) # {}
                      /\ \A j \in (i + 1)..4 : val(sources[j], n) = {}
    IN  F.op = "headers" =>
            \A n \in names :
                val(F.headers, n) = IF n = "accept-encoding" /\ ~F.request.compression
                                    THEN {}
                                    ELSE val(sources[top(n)], n)

\* a request header overrides a default of another case, and of three
\* sources naming Accept-Encoding the unredirected headers win
C28_Witness ==
    /\ F.op = "headers"
    /\ F.request.compression
    /\ params.http_headers # EmptyHeaders
    /\ F.request.unredirected_headers # EmptyHeaders
    /\ F.request.headers = Header("user-agent", "request")
    /\ F.headers = [n \in {"user-agent", "Accept-Encoding"} |->
                        IF n = "user-agent" THEN "request" ELSE "unredirected"]

\* C29: the variant of a pool depends only on the scheme of its proxy
\* identity: an identity with one of the schemes socks4, socks4a, socks5,
\* socks5h has a pool whose http and https connections are both
\* SOCKS-tunneled, every other identity has a pool whose connections are
\* direct or HTTP-proxied, and no step changes the variant of a registered
\* pool.
C29_VariantByScheme ==
    /\ [](\A key \in DOMAIN pools : \A scheme \in {"http", "https"} :
            ConnectionCls(pools[key], scheme) \in {"SocksHTTPConnection", "SocksHTTPSConnection"}
                <=> key.scheme \in {"socks4", "socks4a", "socks5", "socks5h"})
    /\ [][\A key \in DOMAIN pools :
            pools'[key].variant = pools[key].variant]_vars

\* C29 as the code has it: the pool is SOCKS-tunneled exactly when the text
\* of the identity begins with "socks", which the four SOCKS schemes do and
\* the scheme "socks" does too; the variant of a registered pool never
\* changes.
C29_VariantByPrefix ==
    /\ [](\A key \in DOMAIN pools : \A scheme \in {"http", "https"} :
            ConnectionCls(pools[key], scheme) \in {"SocksHTTPConnection", "SocksHTTPSConnection"}
                <=> key.scheme \in {"socks", "socks4", "socks4a", "socks5",
                                    "socks5h"})
    /\ [][\A key \in DOMAIN pools :
            pools'[key].variant = pools[key].variant]_vars

\* the registry holds a SOCKS pool of a SOCKS scheme, a SOCKS pool of the
\* scheme "socks" and a pool that is not SOCKS, and a second request for the
\* socks5 identity built another manager without replacing the first
C29_Witness ==
    /\ \E key \in DOMAIN pools :
          /\ key.scheme = "socks5"
          /\ pools[key].variant = "SocksProxyManager"
          /\ pools[key].id = <<key, 1>>
          /\ Created(key) >= 2
    /\ \E key \in DOMAIN pools :
          key.scheme = "socks" /\ pools[key].variant = "SocksProxyManager"
    /\ \E key \in DOMAIN pools : pools[key].variant # "SocksProxyManager"

\* C30: when a read of the body times out, the read fails with
\* ReadTimeoutError and the connection is discarded: it is not in the idle
\* set of its pool afterwards (a request takes only new or idle connections,
\* so none could reuse it).
C30_TimeoutDiscards ==
    [][\A k \in DOMAIN resps : ReadFault(k, Event("body", "timeout"),
                     Fault("ReadTimeoutError", "None", FALSE)) =>
          /\ lastread'.err = Typed("ReadTimeoutError")
          /\ k \notin IdleConns']_vars

\* C30 as the code has it: the read fails with ReadTimeoutError, the
\* response gives up the connection and the connection is closed; it is
\* dropped, or it waits in the idle set closed, and stays closed for as long
\* as it is idle, so that a request taking it opens a new socket.
C30_TimeoutCloses ==
    /\ [][\A k \in DOMAIN resps : ReadFault(k, Event("body", "timeout"),
                     Fault("ReadTimeoutError", "None", FALSE)) =>
            /\ lastread'.err = Typed("ReadTimeoutError")
            /\ k \notin DOMAIN resps'
            /\ k \in DOMAIN conns' => ~conns'[k].sock]_vars
    /\ [][\A k \in IdleConns : ~conns[k].sock /\ k \in IdleConns' =>
            ~conns'[k].sock]_vars

\* the last read timed out and the connection it was reading from waits
\* closed in the idle set
C30_Witness ==
    /\ lastread.event = Event("body", "timeout")
    /\ lastread.err = Typed("ReadTimeoutError")
    /\ \E k \in IdleConns : ~conns[k].sock
    /\ \A k \in DOMAIN resps : ~resps[k].fp_closed

\* C31: the pool registry belongs to the backend instance: no pool object
\* is in the registries of two instances, a step of get_pool or _real_handle
\* on one instance leaves the registry of every other instance as it was.
C31_RegistryPerInstance ==
    /\ [](LET PoolObjects(registry) ==
                  {registry[key].id : key \in DOMAIN registry}
          IN  \A i \in OtherInstances :
                /\ PoolObjects(pools) \cap PoolObjects(others[i]) = {}
                /\ \A j \in OtherInstances \ {i} :
                      PoolObjects(others[i]) \cap PoolObjects(others[j]) = {})
    /\ [][frame' # frame \/ pools' # pools => others' = others]_vars
    /\ [][\A i \in OtherInstances : others'[i] # others[i] =>
            /\ pools' = pools
            /\ \A j \in OtherInstances \ {i} : others'[j] = others[j]]_vars

\* the three instances each hold a pool of their own for one proxy identity,
\* and the first has returned from a _real_handle that used its pool
C31_Witness ==
    /\ F.op = "_real_handle" /\ F.pc = "returned"
    /\ \E key \in DOMAIN pools :
          /\ F.pm = pools[key]
          /\ \A i \in OtherInstances : key \in DOMAIN others[i]

\* C32: when the url the urllib3 response reports has no hostname, the url
\* of the adapter has the host and the port of the connection that served
\* the response; when it has a hostname, the url of the adapter is the
\* reported url, unchanged.
C32_FinalUrl ==
    adapter # NoAdapter =>
        IF geturl(adapter.res).host = ""
        THEN /\ adapter.url.host = adapter.res.connection.host
             /\ adapter.url.port = adapter.res.connection.port
        ELSE adapter.url = geturl(adapter.res)

\* C32 as the code has it: no reported url at all (None, after a retry on
\* Retry-After) gives no url; a reported url without hostname gets the host
\* and port of the connection; a reported url with a hostname keeps host,
\* port and path, with the scheme in lower case and without the "?" of an
\* empty query.
C32_FinalUrlOfCode ==
    adapter # NoAdapter =>
        IF geturl(adapter.res) = UrlNone THEN adapter.url = UrlNone
        ELSE IF geturl(adapter.res).host = ""
        THEN /\ adapter.url.host = adapter.res.connection.host
             /\ adapter.url.port = adapter.res.connection.port
             /\ adapter.url.path = geturl(adapter.res).path
        ELSE /\ adapter.url.host = geturl(adapter.res).host
             /\ adapter.url.port = geturl(adapter.res).port
             /\ adapter.url.path = geturl(adapter.res).path
             /\ adapter.url.scheme =
                    (IF geturl(adapter.res).scheme = "HTTP" THEN "http" ELSE geturl(adapter.res).scheme)
             /\ adapter.url.query =
                    (IF geturl(adapter.res).query = "empty" THEN "none" ELSE geturl(adapter.res).query)

\* a redirect to the relative reference /x was followed on a connection to
\* a, and the adapter's url names a
C32_Witness ==
    /\ adapter.res.history = <<UrlText("", "", "", "/x", "none")>>
    /\ adapter.res.connection = [host |-> "a", port |-> "80"]
    /\ adapter.url.host = "a" /\ adapter.url.port = "80"

\* C39: a url rebuilt because the reported url has no hostname has the
\* scheme https, also for a request made over plain http.
C39_RebuiltIsHttps ==
    adapter # NoAdapter /\ geturl(adapter.res) # UrlNone /\ geturl(adapter.res).host = ""
        => adapter.url.scheme = "https"

\* a request for an http url was redirected to /x and served on port 80,
\* and the adapter's url has the scheme https
C39_Witness ==
    /\ adapter.res.request_url.scheme = "http"
    /\ adapter.res.history = <<UrlText("", "", "", "/x", "none")>>
    /\ adapter.res.connection.port = "80"
    /\ adapter.url.scheme = "https"

\* C33: with the compression flag of the request off, the headers of the
\* call hold no Accept-Encoding under any spelling, whichever of the
\* defaults, the session, the request and the unredirected headers define
\* one, and the deletion does not raise.
C33_NoEncodingWithoutCompression ==
    F.op = "headers" /\ ~F.request.compression =>
        /\ \A n \in DOMAIN F.headers : Lower(n) # "accept-encoding"
        /\ F.err = NoError

\* compression is off, the session and the request both define
\* Accept-Encoding, and the headers built hold other names only
C33_Witness ==
    /\ F.op = "headers" /\ ~F.request.compression
    /\ \E n \in DOMAIN params.http_headers : Lower(n) = "accept-encoding"
    /\ \E n \in DOMAIN F.request.headers : Lower(n) = "accept-encoding"
    /\ F.headers # EmptyHeaders
    /\ F.err = NoError

\* C34: when urlopen raises, _real_handle raises too, and before the
\* response is adapted: the helper called by an except clause does not
\* return, so urllib3_res is not read unassigned, no adapter is built, no
\* status is checked and no cookie is harvested; an exception raised after
\* the adaptation is the HTTP-status error only.
C34_FaultRaisesBeforeAdaptation ==
    LET adapted == \E i \in DOMAIN F.steps : F.steps[i] = "response-adapt"
    IN  F.op = "_real_handle" /\ F.pc = "raised" =>
            /\ F.err \notin {NoError, Returned, Raw("UnboundLocalError")}
            /\ adapted => F.err = Typed("HTTPError")
            /\ F.event # NoEvent \/ F.calls = 0 =>
                  ~adapted /\ ~F.harvested /\ cookiejar = F.jar0

\* a call failed with a ProtocolError while the status line was read, and
\* _real_handle raised TransportError without adapting anything
C34_Witness ==
    /\ F.op = "_real_handle" /\ F.pc = "raised"
    /\ F.event = Event("response", "badstatus")
    /\ F.err = Typed("TransportError")
    /\ ~\E i \in DOMAIN F.steps : F.steps[i] = "response-adapt"

C36_OnlyUnredirectedStripped ==
    LET first == BuildHeaders(F.request)
        unredirected == {Lower(m) : m \in DOMAIN F.request.unredirected_headers}
    IN  F.op = "_real_handle" /\ F.pc \in {"send", "wait"} =>
            /\ \A n \in DOMAIN first : Lower(n) \notin unredirected =>
                  n \in DOMAIN F.headers /\ F.headers[n] = first[n]
            /\ \A n \in DOMAIN F.headers : F.headers[n] = first[n]

\* after a redirect to the other host the call in flight carries the
\* Authorization of the request and not its unredirected X-Token
C36_Witness ==
    /\ F.op = "_real_handle" /\ F.pc = "wait"
    /\ F.redirects >= 1
    /\ F.url.host # F.request0.url.host
    /\ "X-Token" \in DOMAIN F.request.unredirected_headers
    /\ "X-Token" \notin DOMAIN F.headers
    /\ "Authorization" \in DOMAIN F.headers
    /\ F.headers["Authorization"] = "request"

\* C37: raising the HTTP-status error leaves the connection of the response
\* open and its body unread and readable; the first release of the response
\* afterwards closes the connection and clears the handle, without handing
\* anything to the pool; a release after that changes nothing.
C37_ErrorReleaseOnce ==
    /\ [][\A w \in WireResponses :
            RecvResponse("c1", w) /\ frame'["c1"].err = Typed("HTTPError") =>
                LET k == frame'["c1"].res
                IN  /\ k \in DOMAIN resps'
                    /\ resps'[k].override /\ ~resps'[k].fp_closed
                    /\ resps'[k].connection = k
                    /\ conns'[k].sock]_vars
    /\ [](\A k \in DOMAIN resps : resps[k].override =>
            LET once == release_conn(queues, conns, resps[k])
                twice == release_conn(once.queues, once.conns, once.res)
            IN  /\ once.res.connection = 0
                /\ k \notin DOMAIN once.conns
                /\ once.queues = queues
                /\ twice = once)
    /\ [][\A k \in DOMAIN resps : resps[k].override /\ Read(k) =>
            /\ k \notin DOMAIN conns'
            /\ k \notin DOMAIN resps'
            /\ queues' = queues]_vars

\* the caller holds the response of an HTTP-status error, unread, on an
\* open connection, after _real_handle has raised
C37_Witness ==
    /\ F.pc = "idle"
    /\ \E k \in DOMAIN resps :
          /\ resps[k].override /\ ~resps[k].fp_closed
          /\ conns[k].sock

\* C38: the registry key of a request is its proxy after scheme inference:
\* a proxy text without a scheme gets the scheme of the url, so that the one
\* text gives different identities, and different pools, for an http and an
\* https url, and requests whose proxies resolve to the same text use the
\* one pool registered for it.
C38_KeyAfterInference ==
    F.op = "_real_handle" =>
        /\ F.request.proxy # NoProxy /\ F.request.proxy.scheme = "" =>
              F.proxy = [scheme |-> F.request.url.scheme,
                         addr |-> F.request.proxy.addr]
        /\ F.pm # NoPm =>
              /\ PoolKey(F.proxy) \in DOMAIN pools
              /\ F.pm = pools[PoolKey(F.proxy)]
        /\ \A k1, k2 \in DOMAIN pools : k1 # k2 => pools[k1].id # pools[k2].id

\* C38 as the code has it: the inference happens for a proxy text in which
\* parse_url finds no scheme; a text such as localhost:8080, where it takes
\* the host name for a scheme, is the key as it stands, for either url.
C38_KeyAfterParsedInference ==
    F.op = "_real_handle" =>
        /\ F.request.proxy # NoProxy /\ F.request.proxy.scheme = "" =>
              F.proxy = IF F.request.proxy = LocalProxy THEN LocalProxy
                        ELSE [scheme |-> F.request.url.scheme,
                              addr |-> F.request.proxy.addr]
        /\ F.pm # NoPm =>
              /\ PoolKey(F.proxy) \in DOMAIN pools
              /\ F.pm = pools[PoolKey(F.proxy)]
        /\ \A k1, k2 \in DOMAIN pools : k1 # k2 => pools[k1].id # pools[k2].id

\* the request in flight names the scheme-less proxy p for an https url and
\* uses the pool of https://p, while an earlier request registered another
\* pool under http://p
C38_Witness ==
    /\ F.op = "_real_handle" /\ F.pc = "wait"
    /\ F.request.proxy = [scheme |-> "", addr |-> "p"]
    /\ F.request.url.scheme = "https"
    /\ F.pm = pools[[scheme |-> "https", addr |-> "p"]]
    /\ [scheme |-> "http", addr |-> "p"] \in DOMAIN pools
    /\ F.pm # pools[[scheme |-> "http", addr |-> "p"]]

\* C10: whenever _real_handle has obtained a response, with a status inside
\* or outside 200-299, the cookies of the response were harvested.
C10_HarvestOnEveryResponse ==
    F.status # 0 => F.harvested

====
